---------------------------- MODULE Spec2Model ----------------------------
(***************************************************************************)
(* A model of wowplug's resolution and sync engine:                        *)
(*   - Curseforge._make_fuzzy_search_keys      (provider.py)               *)
(*   - Curseforge.setup_sources / find_source  (provider.py)               *)
(*   - sync() and the scan() it calls          (sync.py, scan.py)          *)
(*   - scan() with an output file              (scan.py)                   *)
(*   - linkdir                                 (utils.py)                  *)
(*   - AddonSource.zipinfo, CurseProject.addons (provider.py)              *)
(*   - AddonProvider.__init_subclass__         (provider.py)               *)
(*   - Config.cachedir and the cache files     (config.py)                 *)
(*   - unzipdir file by file                   (utils.py)                  *)
(*   - Source.sync called repeatedly           (provider.py)               *)
(*   - a memoised method called from threads   (provider.py, utils.py)     *)
(*   - GithubRepo.sync on a shared clone dir   (provider.py)               *)
(* Strings that the code inspects character by character are sequences of  *)
(* one-character strings.                                                  *)
(***************************************************************************)
EXTENDS Integers, Sequences, FiniteSets, TLC

VARIABLES
    \* configuration (config.py default_content, read through config.get)
    blacklist,      \* curseforge.search.blacklist: [none, words]; none: no entry
    max_try,        \* curseforge.match.max_try
    avoids_symlink_attacks,    \* shutil.rmtree.avoids_symlink_attacks
    \* fuzzy key derivation
    kpc, kname, kkeys,
    \* Curseforge.setup_sources
    site,           \* what the remote site can answer: projects and scores
    toc_names,      \* the argument of setup_sources
    search_cache,   \* the lru_cache of Curseforge._search_case_insensitive
    tasks,          \* one find_source task per toc name: its position, its
                    \* locals, what the site answered (answers, examined)
                    \* and how it ended (ret, found)
    setup,          \* position and outcome of setup_sources itself
    registered,     \* Curseforge._sources: names of the registered projects
    \* sync()
    target, target0,  \* the target directory now / when sync() was called
    cache, cache0,    \* the files of the cache directory now / at the call
    spc,              \* position of sync()
    srcs,             \* per Source: its future, its sync_status, ...
    done,             \* futures already taken from as_completed, in order
    \* functions checked on their own, each with its frame
    lk,             \* utils.linkdir (on target)
    scn,            \* scan.scan on its own (on target)
    cdir,           \* Config.cachedir, save_to_cachedir, get_from_cachedir
    reg,            \* AddonProvider.providers
    zinfo,          \* one Source's zipinfo / addons and its lru_cache
    uz,             \* utils.unzipdir, file by file
    race,           \* threads that read one memoised value
    git             \* GithubRepo.sync of Sources that share a clone directory

vars == <<blacklist, max_try, avoids_symlink_attacks, kpc, kname, kkeys,
          site, toc_names, search_cache, tasks, setup, registered,
          target, target0, cache, cache0, spc, srcs, done,
          lk, scn, cdir, reg, zinfo, uz, race, git>>

cfgVars == <<blacklist, max_try, avoids_symlink_attacks>>
keyVars == <<kpc, kname, kkeys>>
findVars == <<site, toc_names, search_cache, tasks, setup, registered>>
syncVars == <<target, target0, cache, cache0, spc, srcs, done>>
stepVars == <<uz, race, git>>
unitVars == <<lk, scn, cdir, reg, zinfo, stepVars>>

None == "None"

-----------------------------------------------------------------------------
(* Generic helpers *)

Range(s) == {s[i] : i \in 1..Len(s)}

RECURSIVE SeqsUpTo(_, _)
SeqsUpTo(S, n) ==
    IF n = 0 THEN {<<>>}
    ELSE LET shorter == SeqsUpTo(S, n - 1)
         IN shorter \cup {Append(s, c) : s \in shorter, c \in S}

\* list.remove(x): drops the first occurrence of x
RECURSIVE RemoveFirst(_, _)
RemoveFirst(s, x) ==
    IF s = <<>> THEN <<>>
    ELSE IF Head(s) = x THEN Tail(s)
    ELSE <<Head(s)>> \o RemoveFirst(Tail(s), x)

-----------------------------------------------------------------------------
(* Characters and strings *)

\* str.lower on one character of the modelled alphabet
LowerChar(c) ==
    CASE c = "A" -> "a"
      [] c = "B" -> "b"
      [] c = "M" -> "m"
      [] c = "O" -> "o"
      [] OTHER -> c

\* str.lower
Lower(s) == [i \in 1..Len(s) |-> LowerChar(s[i])]

\* the characters the pattern (\W|_) matches: everything but letters and digits
Separators == {"_", " ", "-"}

IsSep(c) == c \in Separators

\* re.sub(r'(\W|_)+', ' ', s): every maximal run of separators becomes one space
RECURSIVE ReSubSeparators(_)
ReSubSeparators(s) ==
    IF s = <<>> THEN <<>>
    ELSE IF IsSep(Head(s))
         THEN IF Len(s) > 1 /\ IsSep(s[2])
              THEN ReSubSeparators(Tail(s))
              ELSE <<" ">> \o ReSubSeparators(Tail(s))
         ELSE <<Head(s)>> \o ReSubSeparators(Tail(s))

RECURSIVE LStrip(_)
LStrip(s) == IF s # <<>> /\ Head(s) = " " THEN LStrip(Tail(s)) ELSE s

RECURSIVE RStrip(_)
RStrip(s) ==
    IF s # <<>> /\ s[Len(s)] = " " THEN RStrip(SubSeq(s, 1, Len(s) - 1)) ELSE s

\* str.strip()
Strip(s) == LStrip(RStrip(s))

\* str.split(): the maximal runs of non-whitespace, in order
RECURSIVE SplitAcc(_, _)
SplitAcc(s, cur) ==
    IF s = <<>> THEN (IF cur = <<>> THEN <<>> ELSE <<cur>>)
    ELSE IF Head(s) = " "
         THEN (IF cur = <<>> THEN <<>> ELSE <<cur>>) \o SplitAcc(Tail(s), <<>>)
         ELSE SplitAcc(Tail(s), Append(cur, Head(s)))

Split(s) == SplitAcc(s, <<>>)

-----------------------------------------------------------------------------
(* Curseforge._make_fuzzy_search_keys *)

\* the configured blacklist, lower-cased; a missing entry reads as empty
LowerBlacklist(bl) == IF bl.none THEN {} ELSE {Lower(b) : b \in bl.words}

\* a variant that compares the keys with the blacklist as configured
MakeFuzzySearchKeys_RawBlacklist(name, bl) ==
    LET n == Lower(name)
        norm_name == Strip(ReSubSeparators(n))
        stems0 == Split(norm_name)
        stems1 == IF norm_name \notin Range(stems0)
                  THEN <<norm_name>> \o stems0 ELSE stems0
        stems2 == IF n \in Range(stems1) THEN RemoveFirst(stems1, n) ELSE stems1
        raw == IF bl.none THEN {} ELSE bl.words
    IN SelectSeq(stems2, LAMBDA s : s \notin raw /\ s # n)

MakeFuzzySearchKeys(name, bl) ==
    LET n == Lower(name)
        norm_name == Strip(ReSubSeparators(n))
        stems0 == Split(norm_name)
        stems1 == IF norm_name \notin Range(stems0)
                  THEN <<norm_name>> \o stems0 ELSE stems0
        stems2 == IF n \in Range(stems1) THEN RemoveFirst(stems1, n) ELSE stems1
    IN SelectSeq(stems2, LAMBDA s : s \notin LowerBlacklist(bl) /\ s # n)


\* the keys of Curseforge._make_fuzzy_search_keys for one name
KAlphabet == {"a", "b", "A", "_", " ", "-"}
MaxNameLen == 3
ExampleName ==
    <<"M", "y", "A", "d", "d", "o", "n", "_", "O", "p", "t", "i", "o", "n", "s">>
WordOptions == <<"o", "p", "t", "i", "o", "n", "s">>
KNames == (SeqsUpTo(KAlphabet, MaxNameLen) \ {<<>>}) \cup {ExampleName}
KBlackWords == {<<"a">>, <<"A">>, <<"b">>, <<"a", " ", "b">>, WordOptions}
KBlacklists ==
    {[none |-> TRUE, words |-> {}]}
        \cup {[none |-> FALSE, words |-> W] : W \in SUBSET KBlackWords}

\* config.py default: curseforge.match.max_try
DefaultMaxTry == 5

\* names of the entries that may lie directly under the target
AddonNames == {"X", "Y"}

\* a path that does not exist.  A directory is described by
\*   base     its base name: "AddOns", "Interface" or anything else ("plain")
\*   sub      the directory scan() may look into instead of it: <dir>/AddOns
\*            when base is "Interface", <dir>/Interface/AddOns otherwise;
\*            "none": not there, "empty": there without any addon folder,
\*            "addons": there with an addon folder Z holding Z.toc
\*   entries  the other entries directly under it, by name
AbsentDir ==
    [exists |-> FALSE, base |-> "AddOns", sub |-> "none",
     entries |-> [n \in AddonNames |-> "none"]]

FindIdle ==
    /\ site = [projects |-> {}, scores |-> {}]
    /\ toc_names = <<>>
    /\ search_cache = {}
    /\ tasks = <<>>
    /\ setup = [pc |-> "idle", exc |-> None]
    /\ registered = {}

SyncIdle ==
    /\ target = AbsentDir /\ target0 = AbsentDir
    /\ cache = {} /\ cache0 = {}
    /\ spc = "idle"
    /\ srcs = <<>>
    /\ done = <<>>

KeysIdle == kpc = "idle" /\ kname = <<>> /\ kkeys = <<>>

Idle == [pc |-> "idle"]
LinkIdle == lk = Idle
ScanIdle == scn = Idle
CacheDirIdle == cdir = Idle
RegistryIdle == reg = Idle
MemoIdle == zinfo = Idle
StepsIdle == uz = Idle /\ race = Idle /\ git = Idle
UnitsIdle == LinkIdle /\ ScanIdle /\ CacheDirIdle /\ RegistryIdle /\ MemoIdle /\ StepsIdle

InitKeys ==
    /\ blacklist \in KBlacklists
    /\ max_try = DefaultMaxTry
    /\ avoids_symlink_attacks = TRUE
    /\ kpc = "start"
    /\ kname \in KNames
    /\ kkeys = <<>>
    /\ FindIdle
    /\ SyncIdle
    /\ UnitsIdle

\* one call of _make_fuzzy_search_keys(kname)
DeriveKeys ==
    /\ kpc = "start"
    /\ kkeys' = MakeFuzzySearchKeys(kname, blacklist)
    /\ kpc' = "derived"
    /\ UNCHANGED <<kname, cfgVars, unitVars, findVars, syncVars>>

NextKeys == DeriveKeys

SpecKeys == InitKeys /\ [][NextKeys]_vars

-----------------------------------------------------------------------------
(* Fuzzy keys: what the derivation is expected to give, stated on its own *)

\* the maximal runs of letters of s, in order
RECURSIVE LetterRuns(_, _)
LetterRuns(s, cur) ==
    IF s = <<>> THEN (IF cur = <<>> THEN <<>> ELSE <<cur>>)
    ELSE IF Head(s) \in Separators
         THEN (IF cur = <<>> THEN <<>> ELSE <<cur>>) \o LetterRuns(Tail(s), <<>>)
         ELSE LetterRuns(Tail(s), Append(cur, Head(s)))

\* the words joined by single spaces
RECURSIVE JoinSpace(_)
JoinSpace(ws) ==
    IF ws = <<>> THEN <<>>
    ELSE IF Len(ws) = 1 THEN ws[1]
    ELSE ws[1] \o <<" ">> \o JoinSpace(Tail(ws))

\* s is t with some elements left out
RECURSIVE IsSubsequence(_, _)
IsSubsequence(s, t) ==
    IF s = <<>> THEN TRUE
    ELSE IF t = <<>> THEN FALSE
    ELSE IF Head(s) = Head(t) THEN IsSubsequence(Tail(s), Tail(t))
    ELSE IsSubsequence(s, Tail(t))

KeyMyaddonOptions ==
    <<"m", "y", "a", "d", "d", "o", "n", " ", "o", "p", "t", "i", "o", "n", "s">>
KeyMyaddon == <<"m", "y", "a", "d", "d", "o", "n">>

\* C10: the derived keys are the normalized full string followed by its
\* whitespace tokens, without any key equal to the lower-cased id and without
\* any key that the blacklist holds (compared in lower case); for
\* "MyAddon_Options" they are "myaddon options", "myaddon", "options" minus
\* the blacklisted ones.
C10_FuzzyKeys ==
    kpc = "derived" =>
        LET id == Lower(kname)
            tokens == LetterRuns(id, <<>>)
            full == JoinSpace(tokens)
            black == IF blacklist.none THEN {}
                     ELSE {Lower(b) : b \in blacklist.words}
            wanted == ({full} \cup Range(tokens)) \ ({id} \cup black)
        IN /\ Range(kkeys) = wanted
           /\ IsSubsequence(kkeys, <<full>> \o tokens)
           /\ \A i \in 1..Len(kkeys) : kkeys[i] # id /\ Lower(kkeys[i]) \notin black
           /\ (kname = ExampleName /\ (blacklist.none \/ blacklist.words = {}))
                => kkeys = <<KeyMyaddonOptions, KeyMyaddon, WordOptions>>
           /\ (kname = ExampleName /\ ~blacklist.none
                   /\ WordOptions \in blacklist.words)
                => kkeys = <<KeyMyaddonOptions, KeyMyaddon>>

\* C10 witness: the keys of "MyAddon_Options" under a blacklist holding
\* "options" have been derived
C10_Witness ==
    /\ kpc = "derived"
    /\ kname = ExampleName
    /\ ~blacklist.none /\ blacklist.words = {WordOptions, <<"A">>}
    /\ kkeys = <<KeyMyaddonOptions, KeyMyaddon>>

-----------------------------------------------------------------------------
(* The target directory and the cache directory *)

\* what one entry <n> under the target is:
\*   addon     a directory holding <n>/<n>.toc
\*   misnamed  a directory holding a .toc file of another base name
\*   junk      a directory holding files, none of them a .toc
\*   merged    a directory holding <n>/<n>.toc and other files
\*   emptydir  a directory holding nothing
\*   file      a plain file
\*   link      a symbolic link to an addon directory elsewhere
\*   none      no such entry
InitialKinds == {"addon", "misnamed", "junk", "emptydir", "file", "link"}
EntryKinds == InitialKinds \cup {"merged"}

BaseNames == {"AddOns", "Interface", "plain"}

\* the sub-directories a directory of that base name may hold
SubStates(base) == IF base = "AddOns" THEN {"none"} ELSE {"none", "empty", "addons"}

TargetStates ==
    {[AbsentDir EXCEPT !.base = b] : b \in BaseNames} \cup
    UNION {{[exists |-> TRUE, base |-> b, sub |-> u, entries |-> f] :
                u \in SubStates(b),
                f \in [AddonNames -> InitialKinds \cup {"none"}]} :
           b \in BaseNames}

\* os.listdir(target)
ListDir(t) ==
    {n \in AddonNames : t.entries[n] # "none"}
        \cup (IF t.sub # "none"
              THEN (IF t.base = "Interface" THEN {"AddOns"} ELSE {"Interface"})
              ELSE {})

\* glob.glob(os.path.join(t, "*/*.toc")): the entries of t holding a .toc
GlobTocs(t) ==
    {n \in AddonNames : t.entries[n] \in {"addon", "misnamed", "merged", "link"}}

\* the order of the names
TocOrder(n) == CASE n = "X" -> 1 [] n = "Y" -> 2 [] OTHER -> 3

\* scan(): the .toc files of the directory it resolves: the directory itself
\* when named AddOns, <dir>/AddOns when named Interface, <dir>/Interface/AddOns
\* when that exists, the directory itself otherwise
ScanTocs(t) ==
    IF t.base = "AddOns" THEN GlobTocs(t)
    ELSE IF t.base = "Interface" \/ t.sub # "none"
         THEN (IF t.sub = "addons" THEN {"Z"} ELSE {})
         ELSE GlobTocs(t)

\* the files below one entry, as os.walk(followlinks=True) lists them
FilesOf(n, kind) ==
    CASE kind = "addon" -> {<<n, "toc">>}
      [] kind = "link" -> {<<n, "toc">>}
      [] kind = "misnamed" -> {<<n, "other.toc">>}
      [] kind = "junk" -> {<<n, "readme">>}
      [] kind = "merged" -> {<<n, "toc">>, <<n, "readme">>}
      [] kind = "file" -> {<<n, "">>}
      [] OTHER -> {}

\* utils.zipdir: the archive holds the files, not the directories
ZipDir(t) ==
    UNION {FilesOf(n, t.entries[n]) : n \in AddonNames}
        \cup (IF t.sub = "addons" THEN {<<"Z", "toc">>} ELSE {})

\* urlsafe_b64encode(sha256(content).digest()): one digest per content
Digest(archive) == [alg |-> "sha256", of |-> archive]

\* a file of the cache directory: a backup AddOns_<time>_<sha>.zip written at
\* that time, or the archive of a Source
BackupFile(archive, stamp) ==
    [type |-> "backup", stamp |-> stamp, sha |-> Digest(archive),
     content |-> archive, src |-> 0]
ZipFileOf(s) ==
    [type |-> "zip", stamp |-> 0, sha |-> Digest({}), content |-> {}, src |-> s]

\* the time of a backup made by an earlier run, and of this run
Earlier == 0
Now == 1

\* the archive of a target with other content
OtherArchive == {<<"W", "toc">>}

\* config.get_from_cachedir("AddOns_*.zip")
GetBackups(c) == {f \in c : f.type = "backup"}

-----------------------------------------------------------------------------
(* scan.scan(scandir) as sync() calls it: output_file is None *)

\* the .toc file glob finds below entry n, as <folder, stem>
TocOf(n, kind) == IF kind = "misnamed" THEN <<n, "other">> ELSE <<n, n>>

\* resolve_addon(toc): an entry whose stem is not the name of its folder gets
\* state "invalid" and no 'toc' dict; the others get the parsed 'toc' dict
\* and no state
ResolveAddon(toc) ==
    IF toc[2] # toc[1]
    THEN [toc_dir |-> toc[1], toc_name |-> toc[2], state |-> "invalid",
          has_toc |-> FALSE]
    ELSE [toc_dir |-> toc[1], toc_name |-> toc[2], state |-> None,
          has_toc |-> TRUE]

\* the names scan() globs, in the order of the file system (here: by name)
RECURSIVE SortedSeq(_)
SortedSeq(S) ==
    IF S = {} THEN <<>>
    ELSE LET m == CHOOSE x \in S : \A y \in S : TocOrder(x) <= TocOrder(y)
         IN <<m>> \o SortedSeq(S \ {m})

\* scan(), lines 37-39: addons.append(resolve_addon(toc)) for every toc
ScanAddons(t) ==
    LET names == SortedSeq(ScanTocs(t))
    IN [k \in 1..Len(names) |->
           ResolveAddon(IF names[k] = "Z" THEN <<"Z", "Z">>
                        ELSE TocOf(names[k], t.entries[names[k]]))]

\* scan(), lines 40-51: RuntimeError when no .toc was found; the summary
\* reads addon['toc'] of every entry, a KeyError for an invalid one
ScanSummary(addons) ==
    IF addons = <<>> THEN "RuntimeError"
    ELSE IF \E k \in 1..Len(addons) : ~addons[k].has_toc THEN "KeyError"
    ELSE None

\* scan(scandir) with output_file None: after the summary it returns None
Scan(t) ==
    LET addons == ScanAddons(t)
        exc == ScanSummary(addons)
    IN [exc |-> exc, value |-> <<>>, isNone |-> exc = None]

\* Python's truth value of None or a list
Truthy(v) == ~v.isNone /\ v.value # <<>>

-----------------------------------------------------------------------------
(* one round of the loop of utils.linkdir *)

\* what an entry under the target may be when linkdir is called: as for
\* sync(), or a symbolic link whose destination is gone; linkdir leaves
\* "linked", a symbolic link to the source folder
LinkKinds == InitialKinds \cup {"merged", "dangling", "none"}

\* the entry is a directory that is no symbolic link
IsRealDir(kind) == kind \in {"addon", "misnamed", "junk", "merged", "emptydir"}

\* os.path.islink / os.path.exists (which follows the link)
IsLink(kind) == kind \in {"link", "linked", "dangling"}
PathExists(kind) == kind \notin {"none", "dangling"}

\* os.symlink(srcdir, tgtdir): fails when the name is taken
Symlink(kind) ==
    IF kind = "none" THEN [kind |-> "linked", exc |-> None]
    ELSE [kind |-> kind, exc |-> "FileExistsError"]

\* shutil.rmtree(tgtdir): removes a directory, fails on a plain file
RmTree(kind) ==
    IF IsRealDir(kind) THEN [kind |-> "none", exc |-> None]
    ELSE [kind |-> kind, exc |-> "NotADirectoryError"]

\* one round of the loop of linkdir on an entry of that kind; safe is
\* shutil.rmtree.avoids_symlink_attacks
LinkOne_AlwaysRemoves(kind, safe) ==
    IF ~PathExists(kind) THEN Symlink(kind)
    ELSE IF IsLink(kind) THEN Symlink("none")
    ELSE IF RmTree(kind).exc # None THEN RmTree(kind)
    ELSE Symlink(RmTree(kind).kind)

LinkOne(kind, safe) ==
    IF ~PathExists(kind) THEN Symlink(kind)
    ELSE IF IsLink(kind) THEN Symlink("none")
    ELSE IF ~safe THEN [kind |-> kind, exc |-> "RuntimeError"]
    ELSE IF RmTree(kind).exc # None THEN RmTree(kind)
    ELSE Symlink(RmTree(kind).kind)

-----------------------------------------------------------------------------
(* sync(sdict, target) over Sources that sync from an archive or by links *)

MaxSources == 2
Sources == 1..MaxSources

\* ThreadPoolExecutor(max_workers=8)
MaxWorkers == 8

\* the addon folders the archive of Source s holds
SourceAddons(s) ==
    CASE s = 1 -> <<"X">>
      [] s = 2 -> <<"X", "Y">>
      [] OTHER -> <<"Y">>

\* the class of Source s: a CurseProject, which syncs from its archive, or a
\* GithubRepo with git at hand, which clones or pulls and links the folders
SourceKind(s) == IF s = 2 THEN "github" ELSE "curseforge"

\* what a failed download or a failed git command raises
FetchExc(kind, fetch) ==
    IF kind = "curseforge" /\ fetch = "conn" THEN "ConnectionError"
    ELSE "RuntimeError"

\* AddonSource._reset_sync_status
ResetStatus == [message |-> None, dirs |-> <<>>]

\* AddonSource.__init__
\* touched: the target folders the running or last sync has written; peers:
\* the Sources whose sync was running when it wrote them
NewSource ==
    [fut |-> "none", exc |-> None, calls |-> 0, status |-> ResetStatus,
     touched |-> <<>>, peers |-> {}]

\* the exception classes the modelled code raises, all subclasses of Exception
ExceptionClasses ==
    {"RuntimeError", "ConnectionError", "OSError", "TypeError", "KeyError",
     "NotADirectoryError", "FileExistsError"}

\* the guard of sync(): scan found nothing and the directory is not empty
UnsafeTarget_Never(t) == FALSE

UnsafeTarget(t) == Scan(t).exc = "RuntimeError" /\ ListDir(t) # {}

\* the except clause of the dispatch loop: "except Exception"
CaughtBySync_OnlyRuntimeError(e) == e = "RuntimeError"

CaughtBySync(e) == e \in ExceptionClasses

InitSync ==
    /\ blacklist = [none |-> FALSE, words |-> {}]
    /\ max_try = DefaultMaxTry
    /\ avoids_symlink_attacks \in BOOLEAN
    /\ KeysIdle
    /\ FindIdle
    /\ UnitsIdle
    /\ target \in TargetStates
    /\ target0 = target
    /\ cache \in {{}, {BackupFile(ZipDir(target), Earlier)},
                  {BackupFile(OtherArchive, Earlier)}}
    /\ cache0 = cache
    /\ spc = "start"
    /\ srcs \in {[s \in R |-> NewSource] : R \in SUBSET Sources}
    /\ done = <<>>

\* sync(): scan the target, guard, back up or create the target
SyncPrepare ==
    /\ spc = "start"
    /\ IF target.exists
       THEN IF UnsafeTarget(target)
            THEN /\ spc' = "raised"
                 /\ UNCHANGED <<target, cache>>
            ELSE IF Scan(target).exc \notin {None, "RuntimeError"}
            THEN /\ spc' = "raised_by_scan"
                 /\ UNCHANGED <<target, cache>>
            ELSE LET r == Scan(target)
                     addons == IF r.exc = "RuntimeError"
                               THEN [exc |-> None, value |-> <<>>,
                                     isNone |-> FALSE]
                               ELSE r
                     bak == ZipDir(target)
                     sha == Digest(bak)
                     oldbak == {f \in GetBackups(cache) : f.sha = sha}
                 IN /\ cache' = IF Truthy(addons) /\ oldbak = {}
                                THEN cache \cup {BackupFile(bak, Now)}
                                ELSE cache
                    /\ spc' = "submit"
                    /\ UNCHANGED target
       ELSE /\ target' = [target EXCEPT !.exists = TRUE]
            /\ spc' = "submit"
            /\ UNCHANGED cache
    /\ UNCHANGED <<target0, cache0, srcs, done, cfgVars, unitVars, keyVars, findVars>>

\* fs = {executor.submit(s.sync, target): s for s in sources}
SyncSubmit ==
    /\ spc = "submit"
    /\ srcs' = [s \in DOMAIN srcs |-> [srcs[s] EXCEPT !.fut = "pending"]]
    /\ spc' = "collect"
    /\ UNCHANGED <<target, target0, cache, cache0, done,
                   cfgVars, unitVars, keyVars, findVars>>

Running == {s \in DOMAIN srcs : srcs[s].fut = "running"}

\* a variant of sync that starts without the reset
StatusAtStart_Kept(status) == status

\* the first statement of every sync method: self._reset_sync_status()
StatusAtStart(status) == ResetStatus

\* a pool worker starts CurseProject.sync(target): the status is reset
WorkerStart(s) ==
    /\ spc = "collect"
    /\ srcs[s].fut = "pending"
    /\ Cardinality(Running) < MaxWorkers
    /\ srcs' = [srcs EXCEPT ![s].fut = "running",
                            ![s].calls = @ + 1,
                            ![s].touched = <<>>,
                            ![s].peers = {},
                            ![s].status = StatusAtStart(@)]
    /\ UNCHANGED <<target, target0, cache, cache0, spc, done,
                   cfgVars, unitVars, keyVars, findVars>>

\* dirsync of one archive folder into the target folder of the same name
SyncedKind(kind) ==
    CASE kind \in {"none", "addon", "emptydir"} -> "addon"
      [] kind \in {"junk", "misnamed", "merged"} -> "merged"
      [] OTHER -> kind

\* utils.unzipdir: the loop over the folders of the archive; a plain file in
\* the place of a folder makes dirsync fail with OSError
RECURSIVE UnzipLoop(_, _)
UnzipLoop(entries, names) ==
    IF names = <<>> THEN [entries |-> entries, exc |-> None, touched |-> <<>>]
    ELSE IF entries[Head(names)] = "file"
         THEN [entries |-> entries, exc |-> "OSError", touched |-> <<>>]
         ELSE LET r == UnzipLoop([entries EXCEPT ![Head(names)] = SyncedKind(@)],
                                 Tail(names))
              IN [r EXCEPT !.touched = <<Head(names)>> \o @]

\* utils.unzipdir: refuses when one of the target folders is a symlink
UnzipDir(entries, names) ==
    IF \E i \in 1..Len(names) : IsLink(entries[names[i]])
    THEN [entries |-> entries, exc |-> "RuntimeError", touched |-> <<>>]
    ELSE UnzipLoop(entries, names)

\* utils.linkdir: the loop over the folders, up to the first that raises
RECURSIVE LinkLoop(_, _, _)
LinkLoop(entries, names, safe) ==
    IF names = <<>> THEN [entries |-> entries, exc |-> None, touched |-> <<>>]
    ELSE LET one == LinkOne(entries[Head(names)], safe)
         IN IF one.exc # None
            THEN [entries |-> entries, exc |-> one.exc, touched |-> <<>>]
            ELSE LET r == LinkLoop([entries EXCEPT ![Head(names)] = one.kind],
                                   Tail(names), safe)
                 IN [r EXCEPT !.touched = <<Head(names)>> \o @]

\* the rest of CurseProject.sync: synczip (fetch the archive, save it to the
\* cache, unzip), then the status is set; the rest of GithubRepo.sync: git
\* clone or pull (the clone is no file of the cache directory), linkdir,
\* then the status is set
WorkerFinish(s) ==
    /\ srcs[s].fut = "running"
    /\ \E fetch \in {"ok", "http", "conn"} :
        IF fetch # "ok"
        THEN /\ srcs' = [srcs EXCEPT ![s].fut = "finished",
                             ![s].exc = FetchExc(SourceKind(s), fetch)]
             /\ UNCHANGED <<target, cache>>
        ELSE LET u == IF SourceKind(s) = "curseforge"
                      THEN UnzipDir(target.entries, SourceAddons(s))
                      ELSE LinkLoop(target.entries, SourceAddons(s),
                                    avoids_symlink_attacks)
             IN /\ cache' = IF SourceKind(s) = "curseforge"
                            THEN cache \cup {ZipFileOf(s)} ELSE cache
                /\ target' = [target EXCEPT !.entries = u.entries]
                /\ srcs' = [srcs EXCEPT ![s].fut = "finished",
                                ![s].exc = u.exc,
                                ![s].touched = u.touched,
                                ![s].peers = IF u.touched = <<>> THEN {}
                                             ELSE Running \ {s},
                                ![s].status =
                                    IF u.exc = None
                                    THEN [message |-> "success",
                                          dirs |-> SourceAddons(s)]
                                    ELSE @]
    /\ UNCHANGED <<target0, cache0, spc, done, cfgVars, unitVars, keyVars, findVars>>

\* one round of "for f in as_completed(fs)": f.result() inside try/except
Collect(s) ==
    /\ spc = "collect"
    /\ srcs[s].fut = "finished"
    /\ s \notin Range(done)
    /\ done' = Append(done, s)
    /\ spc' = IF srcs[s].exc # None /\ ~CaughtBySync(srcs[s].exc)
              THEN "raised_in_pool" ELSE spc
    /\ UNCHANGED <<target, target0, cache, cache0, srcs,
                   cfgVars, unitVars, keyVars, findVars>>

\* the loop is over and the executor is shut down: sync() returns
SyncReturn ==
    /\ spc = "collect"
    /\ Range(done) = DOMAIN srcs
    /\ spc' = "returned"
    /\ UNCHANGED <<target, target0, cache, cache0, srcs, done,
                   cfgVars, unitVars, keyVars, findVars>>

NextSync ==
    \/ SyncPrepare
    \/ SyncSubmit
    \/ \E s \in DOMAIN srcs : WorkerStart(s)
    \/ \E s \in DOMAIN srcs : WorkerFinish(s)
    \/ \E s \in DOMAIN srcs : Collect(s)
    \/ SyncReturn

SpecSync == InitSync /\ [][NextSync]_vars

-----------------------------------------------------------------------------
(* Source.sync(target) called again and again *)

MaxAttempts == 2

InitResync ==
    /\ blacklist = [none |-> FALSE, words |-> {}]
    /\ max_try = DefaultMaxTry
    /\ avoids_symlink_attacks \in BOOLEAN
    /\ KeysIdle
    /\ FindIdle
    /\ UnitsIdle
    /\ target \in {t \in TargetStates : t.exists /\ t.base = "AddOns"}
    /\ target0 = target
    /\ cache = {} /\ cache0 = {}
    /\ spc = "direct"
    /\ srcs = [s \in Sources |-> NewSource]
    /\ done = <<>>

\* source.sync(target) is called while no sync of the Source is running
Resync(s) ==
    /\ spc = "direct"
    /\ srcs[s].fut \in {"none", "finished"}
    /\ srcs[s].calls < MaxAttempts
    /\ srcs' = [srcs EXCEPT ![s].fut = "running",
                            ![s].calls = @ + 1,
                            ![s].exc = None,
                            ![s].touched = <<>>,
                            ![s].peers = {},
                            ![s].status = StatusAtStart(@)]
    /\ UNCHANGED <<target, target0, cache, cache0, spc, done,
                   cfgVars, unitVars, keyVars, findVars>>

NextResync ==
    \/ \E s \in DOMAIN srcs : Resync(s)
    \/ \E s \in DOMAIN srcs : WorkerFinish(s)

SpecResync == InitResync /\ [][NextResync]_vars

\* C25: after any sequence of sync attempts on the Sources, a Source that was
\* never synced has the status it was created with, a Source whose sync is
\* running or has raised has message null and no dirs, and a Source with
\* message "success" has ended its most recent attempt without raising, its
\* dirs being the folders that attempt wrote.
C25_StatusOfLastAttempt ==
    \A s \in DOMAIN srcs :
        /\ srcs[s].fut = "none" => srcs[s].status = [message |-> None, dirs |-> <<>>]
        /\ (srcs[s].fut = "running" \/ srcs[s].exc # None)
              => srcs[s].status = [message |-> None, dirs |-> <<>>]
        /\ srcs[s].status.message = "success"
              => /\ srcs[s].fut = "finished"
                 /\ srcs[s].exc = None
                 /\ srcs[s].status.dirs = srcs[s].touched

\* C25 witness: the first sync of Source 1 created X and the second raised,
\* while Source 2 was never synced
C25_Witness ==
    /\ spc = "direct"
    /\ srcs[1].calls = 2 /\ srcs[1].fut = "finished" /\ srcs[1].exc # None
    /\ target0.entries["X"] = "none" /\ target.entries["X"] = "addon"
    /\ srcs[2].fut = "none"

-----------------------------------------------------------------------------
(* Claims about sync() *)

Dispatched == spc \in {"collect", "returned", "raised_in_pool"} /\ DOMAIN srcs # {}

\* C1 (as claimed): once the Sources are dispatched to sync into a target that
\* held a component (a */<name>.toc file) when sync() was called, the cache
\* holds a backup whose digest is the digest of the archive of the target's
\* content at the call.
C1_BackupBeforeDispatch ==
    (Dispatched /\ target0.exists /\ GlobTocs(target0) # {})
        => \E f \in GetBackups(cache) : f.sha = Digest(ZipDir(target0))

\* C2: a Source's sync is started at most once; sync() never raises out of the
\* dispatch loop whatever the Sources raise, and can always take a further
\* step until it returns; when it has returned every Source's sync was
\* started exactly once and has ended, with "success" when it did not raise.
C2_FailuresIsolated ==
    /\ spc # "raised_in_pool"
    /\ \A s \in DOMAIN srcs : srcs[s].calls <= 1
    /\ spc = "collect" => ENABLED NextSync
    /\ spc = "returned" =>
          \A s \in DOMAIN srcs :
              /\ srcs[s].calls = 1
              /\ srcs[s].fut = "finished"
              /\ srcs[s].exc = None => srcs[s].status.message = "success"

\* C2 witness: sync() has returned although one Source raised an error that is
\* no RuntimeError, and the other Source succeeded
C2_Witness ==
    /\ spc = "returned"
    /\ \E s, r \in DOMAIN srcs :
          /\ srcs[s].exc = "ConnectionError"
          /\ srcs[r].exc = None /\ srcs[r].status.message = "success"

ScanFindsNothing(t) == t.exists /\ ScanTocs(t) = {}

\* C3: when the target exists, scan() finds no component for it and it is not
\* empty, sync() raises with the cache and the target as they were and no
\* Source dispatched, and it raises in no other case; when the target exists
\* and is empty, sync() goes on to dispatch with the target still empty and
\* no backup written.
C3_UnsafeTargetGuard ==
    /\ (ScanFindsNothing(target0) /\ ListDir(target0) # {} /\ spc # "start")
          => /\ spc = "raised"
             /\ cache = cache0
             /\ target = target0
             /\ \A s \in DOMAIN srcs : srcs[s].fut = "none" /\ srcs[s].calls = 0
    /\ spc = "raised" => (ScanFindsNothing(target0) /\ ListDir(target0) # {})
    /\ (target0.exists /\ ListDir(target0) = {} /\ spc # "start")
          => /\ spc # "raised"
             /\ GetBackups(cache) = GetBackups(cache0)
             /\ spc = "submit" => (target = target0 /\ cache = cache0)

\* C3 witness: sync() has raised on a target that holds only a folder without
\* any .toc file, with Sources waiting
C3_Witness ==
    /\ spc = "raised"
    /\ target0.entries["X"] = "junk"
    /\ target0.entries["Y"] = "none"
    /\ DOMAIN srcs # {}

\* the backups of the cache whose name holds the digest of that archive
BackupsOf(c, archive) == {f \in GetBackups(c) : f.sha = Digest(archive)}

\* C11 (as claimed): once sync() is past its backup step on a target that held
\* components, the cache holds exactly one backup with the digest of the
\* target's content at the call; nothing is written when a backup with that
\* digest was there at the call, and one is written when there was none, also
\* when a backup with another digest was there.
C11_BackupDeduplicated ==
    (/\ spc \notin {"start", "raised", "raised_by_scan"}
     /\ target0.exists
     /\ ScanAddons(target0) # <<>>)
    => /\ Cardinality(BackupsOf(cache, ZipDir(target0))) = 1
       /\ BackupsOf(cache0, ZipDir(target0)) # {}
             => GetBackups(cache) = GetBackups(cache0)
       /\ BackupsOf(cache0, ZipDir(target0)) = {}
             => GetBackups(cache) =
                    GetBackups(cache0) \cup {BackupFile(ZipDir(target0), Now)}

\* C13 (as claimed): once sync() has taken the result of a Source whose sync
\* raised, the status message of that Source is a text about the error: it is
\* neither null nor "success".
C13_FailureInStatus ==
    \A s \in DOMAIN srcs :
        (s \in Range(done) /\ srcs[s].exc # None)
            => srcs[s].status.message \notin {None, "success"}

\* C29 (as claimed): across a sync() run, a folder under the target that was
\* a real directory with files when sync() was called is replaced by a link
\* only when the cache holds a backup archive with the files of that folder,
\* written in this run or found there.
C29_BackupBeforeRemoval ==
    \A n \in AddonNames :
        (/\ spc \notin {"idle", "direct"}
         /\ IsRealDir(target0.entries[n])
         /\ FilesOf(n, target0.entries[n]) # {}
         /\ target.entries[n] = "linked")
        => \E f \in GetBackups(cache) :
               FilesOf(n, target0.entries[n]) \subseteq f.content

\* C30 (as claimed): when sync() has returned, every folder under the target
\* that a Source's sync has written is listed in the dirs of that Source's
\* status; a Source with no dirs has written none.
C30_TouchedIsListed ==
    spc = "returned"
    => \A s \in DOMAIN srcs :
          Range(srcs[s].touched) \subseteq Range(srcs[s].status.dirs)

\* C27 (as claimed): no folder under the target is written, replaced or
\* removed by two Sources whose sync tasks were running at the same time:
\* when r's sync was running while s's sync wrote its folders, r's sync
\* writes none of them.
C27_NoSharedTargetFolder ==
    \A s, r \in DOMAIN srcs :
        (s # r /\ r \in srcs[s].peers)
        => Range(srcs[s].touched) \cap Range(srcs[r].touched) = {}

-----------------------------------------------------------------------------
(* Curseforge.setup_sources and Curseforge.find_source *)

\* config.py default: curseforge.match.min_score
MinScore == 80

\* fuzzywuzzy.process.extract keeps the best five choices (its default limit)
ExtractLimit == 5

\* the projects and the scores of the site: many for one find_source call,
\* few for a batch of concurrent calls
MaxProjects == 4
BatchProjects == 2
AllScores == {70, 80, 90, 95}
BatchScores == {70, 95}

\* toc names: "B" has no fuzzy key, "b_" has the one key "b", "A_a" has the
\* keys "a a", "a", "a"
IdB == <<"B">>
IdLower == <<"b", "_">>
IdA == <<"A", "_", "a">>

\* the answers of the search page: an error status, a transport error, or a
\* page listing some projects (in the site's order), possibly none
RECURSIVE AscendingLists(_)
AscendingLists(S) ==
    IF S = {} THEN {<<>>}
    ELSE LET m == CHOOSE x \in S : \A y \in S : x >= y
             rest == AscendingLists(S \ {m})
         IN rest \cup {Append(l, m) : l \in rest}

SearchResponses ==
    {[kind |-> "http", rows |-> <<>>], [kind |-> "conn", rows |-> <<>>]}
        \cup {[kind |-> "ok", rows |-> r] : r \in AscendingLists(site.projects)}

\* file names of an archive, as sequences of path components
DotToc == <<".", "t", "o", "c">>
TocIn(folder) == <<folder, folder \o DotToc>>
ReadmeIn(folder) == <<folder, <<"r", "e", "a", "d", "m", "e">>>>
NestedTocIn(folder) == <<folder, folder, folder \o DotToc>>

\* the answers to the download of a project's archive (its download page,
\* then the file): an error status, a transport error, or an archive with
\* these names
FetchResponses(id) ==
    {[kind |-> "http", names |-> <<>>], [kind |-> "conn", names |-> <<>>]}
        \cup {[kind |-> "ok", names |-> l] :
                 l \in {<<ReadmeIn(id), NestedTocIn(id)>>,
                        <<ReadmeIn(id), TocIn(id)>>,
                        <<TocIn(Lower(id))>>}}

\* Curseforge._parse_search_result behind the status check of
\* _search_case_insensitive: no listing or no row, like an error status,
\* raises RuntimeError; a transport error is raised by the request itself
SearchResult_GuessOnNoRows(key, resp) ==
    IF resp.kind = "conn" THEN [exc |-> "ConnectionError", records |-> <<>>]
    ELSE IF resp.kind # "ok" THEN [exc |-> "RuntimeError", records |-> <<>>]
    ELSE IF resp.rows = <<>>
         THEN [exc |-> None, records |-> <<[name |-> 1, key |-> key]>>]
    ELSE [exc |-> None,
          records |-> [k \in 1..Len(resp.rows) |->
                          [name |-> resp.rows[k], key |-> key]]]

SearchResult(key, resp) ==
    IF resp.kind = "conn" THEN [exc |-> "ConnectionError", records |-> <<>>]
    ELSE IF resp.kind # "ok" \/ resp.rows = <<>>
         THEN [exc |-> "RuntimeError", records |-> <<>>]
    ELSE [exc |-> None,
          records |-> [k \in 1..Len(resp.rows) |->
                          [name |-> resp.rows[k], key |-> key]]]

\* what a search request got: an error status, a transport error, a page
\* without rows or a page with rows
Answer(resp) ==
    IF resp.kind # "ok" THEN resp.kind
    ELSE IF resp.rows = <<>> THEN "empty" ELSE "rows"

\* Curseforge._search: the key is lower-cased; a result in the cache is
\* returned without a request, any other call makes the request, and only a
\* result that is returned (not raised) enters the cache.  Lookup, request
\* and store are one step: the toc names of a batch share no key here.
Search(k) ==
    LET key == Lower(k)
        cached == {e \in search_cache : e.key = key}
    IN IF cached # {}
       THEN {[exc |-> None, records |-> e.records, requested |-> FALSE,
              answer |-> "cached", key |-> key] : e \in cached}
       ELSE {[exc |-> SearchResult(key, resp).exc,
              records |-> SearchResult(key, resp).records,
              requested |-> TRUE, answer |-> Answer(resp), key |-> key] :
                 resp \in SearchResponses}

Cached(memo, r) ==
    IF r.requested /\ r.exc = None
    THEN memo \cup {[key |-> r.key, records |-> r.records]}
    ELSE memo

\* OrderedDict.update with one item: a known name keeps its place and takes
\* the new record, a new name is appended
UpdateOne(sources, rec) ==
    IF \E k \in 1..Len(sources) : sources[k].name = rec.name
    THEN [k \in 1..Len(sources) |->
             IF sources[k].name = rec.name THEN rec ELSE sources[k]]
    ELSE Append(sources, rec)

\* sources.update(self._search(k))
RECURSIVE Update(_, _)
Update(sources, records) ==
    IF records = <<>> THEN sources
    ELSE Update(UpdateOne(sources, Head(records)), Tail(records))

\* sorting by descending score, equal scores in their given order
RECURSIVE InsertByScore(_, _)
InsertByScore(sorted, e) ==
    IF sorted = <<>> THEN <<e>>
    ELSE IF Head(sorted).score >= e.score
         THEN <<Head(sorted)>> \o InsertByScore(Tail(sorted), e)
         ELSE <<e>> \o sorted

RECURSIVE SortByScore(_)
SortByScore(l) ==
    IF l = <<>> THEN <<>>
    ELSE InsertByScore(SortByScore(SubSeq(l, 1, Len(l) - 1)), l[Len(l)])

\* fuzzywuzzy.process.extract(toc_name, sources.keys()): the (name, score)
\* pairs by descending score, cut to the limit; sc gives the scores
Extract(sources, sc) ==
    LET scored == [k \in 1..Len(sources) |->
                      [name |-> sources[k].name, score |-> sc[sources[k].name]]]
        sorted == SortByScore(scored)
    IN SubSeq(sorted, 1, IF Len(sorted) < ExtractLimit THEN Len(sorted)
                         ELSE ExtractLimit)

\* sources[name]
RecordOf(sources, name) ==
    sources[CHOOSE k \in 1..Len(sources) : sources[k].name = name]

\* the break of the verification loop; i counts from 0
LoopBreaks_OffByOne(i, score) == score < MinScore \/ i > max_try

LoopBreaks(i, score) == score < MinScore \/ i >= max_try

\* f.lower().endswith('.toc')
EndsWithToc(f) ==
    /\ Len(f) >= Len(DotToc)
    /\ SubSeq(Lower(f), Len(f) - Len(DotToc) + 1, Len(f)) = DotToc

\* zipinfo['tocs']
Tocs(names) == SelectSeq(names, LAMBDA p : EndsWithToc(p[Len(p)]))

\* os.path.split(t)[-2]: what stands before the last slash
RECURSIVE JoinSlash(_)
JoinSlash(parts) ==
    IF parts = <<>> THEN <<>>
    ELSE IF Len(parts) = 1 THEN parts[1]
    ELSE parts[1] \o <<"/">> \o JoinSlash(Tail(parts))

PathHead(p) == JoinSlash(SubSeq(p, 1, Len(p) - 1))

\* CurseProject.addons: the folder of every .toc of the archive; a
\* RuntimeError while fetching (an error status) gives no addon
Addons(resp) ==
    IF resp.kind = "ok"
    THEN LET tocs == Tocs(resp.names)
         IN [k \in 1..Len(tocs) |-> PathHead(tocs[k])]
    ELSE <<>>

\* AddonSource.hastoc
HasToc_IgnoreCase(toc_name, addons) ==
    \E k \in 1..Len(addons) : Lower(addons[k]) = Lower(toc_name)

HasToc(toc_name, addons) == toc_name \in Range(addons)

\* the end of the loop without break: the message is built with
\* '\n'.join(source_names) over (name, score) pairs, which raises TypeError
\* unless the list is empty
ExhaustedRaise(ranking) == IF ranking # <<>> THEN "TypeError" ELSE "RuntimeError"

\* _func: "except RuntimeError: return None"; what the future then raises
FutureRaises(ret) == ret \in {"TypeError", "ConnectionError"}

NewTask ==
    [pc |-> "search", ki |-> 0, sources |-> <<>>, ranking |-> <<>>, i |-> 0,
     examined |-> <<>>, ret |-> "pending", found |-> [name |-> 0, key |-> <<>>],
     answers |-> <<>>]

TaskIds == DOMAIN tasks

FindInitCommon ==
    /\ blacklist = [none |-> FALSE, words |-> {}]
    /\ KeysIdle
    /\ SyncIdle
    /\ UnitsIdle
    /\ search_cache = {}
    /\ tasks = <<>>
    /\ setup = [pc |-> "start", exc |-> None]
    /\ registered = {}

\* setup_sources for one toc name, against a site of many projects
InitFindOne ==
    /\ FindInitCommon
    /\ max_try \in {1, 2, DefaultMaxTry}
    /\ avoids_symlink_attacks = TRUE
    /\ site = [projects |-> 1..MaxProjects, scores |-> AllScores]
    /\ toc_names \in {<<IdB>>, <<IdLower>>}

\* setup_sources for two toc names, against a site of few projects
InitFind ==
    /\ FindInitCommon
    /\ max_try \in {1, DefaultMaxTry}
    /\ avoids_symlink_attacks = TRUE
    /\ site = [projects |-> 1..BatchProjects, scores |-> BatchScores]
    /\ toc_names = <<IdA, IdB>>

\* fs = list(map(lambda t: executor.submit(_func, t), toc_names))
SetupSubmit ==
    /\ setup.pc = "start"
    /\ tasks' = [t \in 1..Len(toc_names) |-> NewTask]
    /\ setup' = [setup EXCEPT !.pc = "submitted"]
    /\ UNCHANGED <<site, toc_names, search_cache, registered,
                   cfgVars, unitVars, keyVars, syncVars>>

Finish(task, ret) == [task EXCEPT !.pc = "done", !.ret = ret]

Counted(task, r) == [task EXCEPT !.answers = Append(@, r.answer)]

\* find_source: the search with the toc name itself
ExactSearch(t) ==
    /\ tasks[t].pc = "search"
    /\ \E r \in Search(toc_names[t]) :
        LET ks == MakeFuzzySearchKeys(toc_names[t], blacklist)
            task == Counted(tasks[t], r)
        IN /\ tasks' = [tasks EXCEPT ![t] =
                 IF r.exc = None
                 THEN [task EXCEPT !.sources = r.records, !.pc = "rank"]
                 ELSE IF r.exc = "RuntimeError"
                      THEN IF ks = <<>>
                           THEN Finish(task, "RuntimeError")
                           ELSE [task EXCEPT !.pc = "fuzzy", !.ki = 1]
                      ELSE Finish(task, r.exc)]
           /\ search_cache' = Cached(search_cache, r)
    /\ UNCHANGED <<site, toc_names, setup, registered,
                   cfgVars, unitVars, keyVars, syncVars>>

\* find_source: one round of "for k in ks", and the check after the last
FuzzySearch(t) ==
    /\ tasks[t].pc = "fuzzy"
    /\ LET ks == MakeFuzzySearchKeys(toc_names[t], blacklist)
       IN \E r \in Search(ks[tasks[t].ki]) :
            LET task == Counted(tasks[t], r)
                merged == IF r.exc = None
                          THEN Update(task.sources, r.records)
                          ELSE task.sources
            IN /\ tasks' = [tasks EXCEPT ![t] =
                     IF r.exc \notin {None, "RuntimeError"}
                     THEN Finish(task, r.exc)
                     ELSE IF task.ki < Len(ks)
                          THEN [task EXCEPT !.sources = merged, !.ki = @ + 1]
                          ELSE IF merged = <<>>
                               THEN Finish(task, "RuntimeError")
                               ELSE [task EXCEPT !.sources = merged,
                                                 !.pc = "rank"]]
               /\ search_cache' = Cached(search_cache, r)
    /\ UNCHANGED <<site, toc_names, setup, registered,
                   cfgVars, unitVars, keyVars, syncVars>>

\* find_source: the ranking of the candidates
Rank(t) ==
    /\ tasks[t].pc = "rank"
    /\ \E sc \in [{tasks[t].sources[k].name : k \in 1..Len(tasks[t].sources)}
                    -> site.scores] :
        tasks' = [tasks EXCEPT ![t].ranking = Extract(tasks[t].sources, sc),
                               ![t].i = 0,
                               ![t].pc = "verify"]
    /\ UNCHANGED <<site, toc_names, search_cache, setup, registered,
                   cfgVars, unitVars, keyVars, syncVars>>

\* find_source: one round of the verification loop, or its end
Verify(t) ==
    /\ tasks[t].pc = "verify"
    /\ LET task == tasks[t]
           i == task.i
       IN IF i >= Len(task.ranking)
          THEN tasks' = [tasks EXCEPT ![t] =
                            Finish(task, ExhaustedRaise(task.ranking))]
          ELSE LET cand == task.ranking[i + 1]
               IN IF LoopBreaks(i, cand.score)
                  THEN tasks' = [tasks EXCEPT ![t] = Finish(task, "None")]
                  ELSE \E resp \in FetchResponses(toc_names[t]) :
                         LET seen == [task EXCEPT !.examined =
                                         Append(@, [name |-> cand.name,
                                                    resp |-> resp])]
                         IN tasks' = [tasks EXCEPT ![t] =
                               IF resp.kind = "conn"
                               THEN Finish(seen, "ConnectionError")
                               ELSE IF HasToc(toc_names[t], Addons(resp))
                                    THEN [Finish(seen, "source") EXCEPT
                                             !.found = RecordOf(task.sources,
                                                                cand.name)]
                                    ELSE [seen EXCEPT !.i = @ + 1]]
    /\ UNCHANGED <<site, toc_names, search_cache, setup, registered,
                   cfgVars, unitVars, keyVars, syncVars>>

\* setup_sources: every future is done; the results are taken (an exception
\* of a future is raised once the executor has shut down) and the Sources
\* found are registered by _finish_setup_sources
SetupFinish ==
    /\ setup.pc = "submitted"
    /\ \A t \in TaskIds : tasks[t].pc = "done"
    /\ IF \E t \in TaskIds : FutureRaises(tasks[t].ret)
       THEN /\ \E t \in TaskIds :
                 /\ FutureRaises(tasks[t].ret)
                 /\ setup' = [pc |-> "raised", exc |-> tasks[t].ret]
            /\ UNCHANGED registered
       ELSE /\ setup' = [setup EXCEPT !.pc = "returned"]
            /\ registered' = registered \cup
                 {tasks[t].found : t \in {u \in TaskIds : tasks[u].ret = "source"}}
    /\ UNCHANGED <<site, toc_names, search_cache, tasks,
                   cfgVars, unitVars, keyVars, syncVars>>

NextFind ==
    \/ SetupSubmit
    \/ \E t \in TaskIds : ExactSearch(t)
    \/ \E t \in TaskIds : FuzzySearch(t)
    \/ \E t \in TaskIds : Rank(t)
    \/ \E t \in TaskIds : Verify(t)
    \/ SetupFinish

SpecFindOne == InitFindOne /\ [][NextFind]_vars

SpecFind == InitFind /\ [][NextFind]_vars

-----------------------------------------------------------------------------
(* Claims about find_source and setup_sources *)

Scores(ranking) == [k \in 1..Len(ranking) |-> ranking[k].score]

\* C4: in every find_source call, the candidates whose archive was examined
\* are the first ones of the ranking, which is by descending score; they are
\* at most max_try and each scores at least min_score.  With the scores
\* [95, 90, 80, 70], min_score 80 and max_try 2, no more than the first two
\* are examined, and exactly these two when neither provides the toc name.
C4_VerifiedPrefix ==
    \A t \in TaskIds :
        LET task == tasks[t]
            n == Len(task.examined)
        IN /\ \A k \in 1..(Len(task.ranking) - 1) :
                 task.ranking[k].score >= task.ranking[k + 1].score
           /\ n <= max_try
           /\ n <= Len(task.ranking)
           /\ \A k \in 1..n :
                 /\ task.examined[k].name = task.ranking[k].name
                 /\ task.ranking[k].score >= MinScore
           /\ (max_try = 2 /\ Scores(task.ranking) = <<95, 90, 80, 70>>) =>
                 /\ n <= 2
                 /\ task.ret = "None" => n = 2

C4_Witness ==
    \E t \in TaskIds :
        /\ max_try = 2
        /\ Scores(tasks[t].ranking) = <<95, 90, 80, 70>>
        /\ tasks[t].ret = "None"
        /\ Len(tasks[t].examined) = 2
        /\ tasks[t].examined[2].name = tasks[t].ranking[2].name

\* the archive of an examined candidate holds <toc name>/<some file>.toc
Provides(e, toc_name) ==
    /\ e.resp.kind = "ok"
    /\ \E j \in 1..Len(e.resp.names) :
          LET p == e.resp.names[j]
          IN /\ Len(p) = 2
             /\ p[1] = toc_name
             /\ EndsWithToc(p[2])

NoRecord == [name |-> 0, key |-> <<>>]

\* C5: find_source returns a candidate only if its archive holds the toc name
\* as a folder with a .toc file, letter case included; the candidate returned
\* is the one examined last, every candidate examined before it did not
\* provide the toc name, and a call that has not returned a candidate has
\* examined none that provides it.
C5_FirstVerifiedReturned ==
    \A t \in TaskIds :
        LET task == tasks[t]
            n == Len(task.examined)
        IN /\ task.ret = "source" =>
                 /\ n >= 1
                 /\ task.found.name = task.examined[n].name
                 /\ task.found.name = task.ranking[n].name
                 /\ Provides(task.examined[n], toc_names[t])
                 /\ \A k \in 1..(n - 1) :
                       ~Provides(task.examined[k], toc_names[t])
           /\ task.ret # "source" =>
                 /\ task.found = NoRecord
                 /\ \A k \in 1..n : ~Provides(task.examined[k], toc_names[t])

C5_Witness ==
    \E t \in TaskIds :
        /\ toc_names[t] = IdB
        /\ tasks[t].ret = "source"
        /\ Len(tasks[t].examined) = 2
        /\ tasks[t].examined[1].resp.kind = "ok"
        /\ tasks[t].examined[1].resp.names = <<TocIn(Lower(IdB))>>
        /\ tasks[t].found.name = tasks[t].ranking[2].name
        /\ setup.pc = "returned"
        /\ registered = {tasks[t].found}

\* no search request of the task got a page with rows
NoRecordFound(task) == "rows" \notin Range(task.answers)

\* C6 (as claimed): when no transport error occurs and the verification loop
\* of some toc name of the batch ends without a match (by max_try, by
\* min_score or after the last candidate), setup_sources returns once every
\* task is done, and registers the Sources found for the other toc names.
C6_UnresolvedIdAlone ==
    LET LoopEndedWithoutMatch(t) ==
            /\ tasks[t].pc = "done"
            /\ tasks[t].ranking # <<>>
            /\ tasks[t].ret # "source"
        NoTransportError ==
            \A t \in TaskIds :
                /\ "conn" \notin Range(tasks[t].answers)
                /\ \A k \in 1..Len(tasks[t].examined) :
                      tasks[t].examined[k].resp.kind # "conn"
    IN (/\ setup.pc \notin {"start", "submitted"}
        /\ NoTransportError
        /\ \E t \in TaskIds : LoopEndedWithoutMatch(t))
       => /\ setup.pc = "returned"
          /\ registered = {tasks[t].found :
                              t \in {u \in TaskIds : tasks[u].ret = "source"}}

\* C7: a find_source call none of whose search requests got a page with rows
\* (the toc name itself, then every fuzzy key, if any) ranks and examines no
\* candidate, ends by raising and leaves nothing registered for the toc name.
C7_NoCandidateNoVerification ==
    \A t \in TaskIds :
        NoRecordFound(tasks[t]) =>
            /\ tasks[t].pc \in {"search", "fuzzy", "done"}
            /\ tasks[t].sources = <<>>
            /\ tasks[t].ranking = <<>>
            /\ tasks[t].examined = <<>>
            /\ tasks[t].found = NoRecord
            /\ tasks[t].ret \in {"pending", "RuntimeError", "ConnectionError"}
            /\ (Len(toc_names) = 1 => registered = {})

C7_Witness ==
    \E t \in TaskIds :
        /\ toc_names[t] = IdLower
        /\ tasks[t].answers = <<"empty", "empty">>
        /\ tasks[t].ret = "RuntimeError"
        /\ tasks[t].examined = <<>>
        /\ setup.pc = "returned"
        /\ registered = {}

\* C8 (as claimed): after the fetch of a candidate's archive has failed, by
\* an error status or by a transport error, the verification loop is past
\* that candidate, and neither the task nor setup_sources ends with the
\* error of the fetch.
C8_FetchFailureRejectsCandidate ==
    \A t \in TaskIds :
        \A k \in 1..Len(tasks[t].examined) :
            tasks[t].examined[k].resp.kind \in {"http", "conn"} =>
                /\ tasks[t].i >= k
                /\ tasks[t].ret # "ConnectionError"
                /\ setup.exc # "ConnectionError"

\* C9 (as claimed): when every search request of the batch failed, by an
\* error status or by a transport error, setup_sources returns once every
\* task is done, with no Source registered.
C9_SearchDownZeroSources ==
    (/\ setup.pc \notin {"start", "submitted"}
     /\ \A t \in TaskIds :
           /\ tasks[t].answers # <<>>
           /\ Range(tasks[t].answers) \subseteq {"http", "conn"})
    => /\ setup.pc = "returned"
       /\ registered = {}

\* C20 (as claimed): while the results of the fuzzy searches for one toc name
\* are merged, a candidate that is in the merged set stays in it with the
\* record it has: a later search that returns the same project name does not
\* replace the record of the first one.
C20_FirstOccurrenceWins ==
    [][\A t \in DOMAIN tasks \cap DOMAIN tasks' :
          tasks[t].pc = "fuzzy"
          => \A k \in 1..Len(tasks[t].sources) :
                /\ k <= Len(tasks'[t].sources)
                /\ tasks'[t].sources[k] = tasks[t].sources[k]]_vars

-----------------------------------------------------------------------------
(* utils.linkdir(source, target, pattern), as LocalAddon.sync and            *)
(* GithubRepo.sync call it                                                   *)

\* the source folders the pattern matches, one per .toc file found
SrcDirLists == {<<>>, <<"X">>, <<"Y">>, <<"X", "Y">>, <<"Y", "X">>, <<"X", "X">>}

LinkTargets ==
    {[exists |-> TRUE, base |-> "AddOns", sub |-> "none", entries |-> f] :
        f \in [AddonNames -> LinkKinds]}

InitLink ==
    /\ StepsIdle
    /\ blacklist = [none |-> FALSE, words |-> {}]
    /\ max_try = DefaultMaxTry
    /\ avoids_symlink_attacks = TRUE
    /\ KeysIdle
    /\ FindIdle
    /\ ScanIdle /\ CacheDirIdle /\ RegistryIdle /\ MemoIdle
    /\ target \in LinkTargets
    /\ target0 = target
    /\ cache = {} /\ cache0 = {}
    /\ spc = "idle"
    /\ srcs = <<>>
    /\ done = <<>>
    /\ lk \in {[pc |-> "start", srcdirs |-> l, todo |-> <<>>, linked |-> <<>>,
                safe |-> b, exc |-> None] :
                  l \in SrcDirLists, b \in BOOLEAN}

\* linkdir, lines 175-178: the source folders and their names under target
LinkCall ==
    /\ lk.pc = "start"
    /\ lk' = [lk EXCEPT !.pc = "loop", !.todo = lk.srcdirs]
    /\ UNCHANGED <<cfgVars, keyVars, findVars, syncVars, scn, cdir, reg, zinfo, stepVars>>

\* linkdir, lines 179-193: one round of the loop
LinkStep ==
    /\ lk.pc = "loop"
    /\ lk.todo # <<>>
    /\ LET n == Head(lk.todo)
           r == LinkOne(target.entries[n], lk.safe)
       IN /\ target' = [target EXCEPT !.entries[n] = r.kind]
          /\ lk' = IF r.exc = None
                   THEN [lk EXCEPT !.todo = Tail(@), !.linked = Append(@, n)]
                   ELSE [lk EXCEPT !.pc = "raised", !.exc = r.exc]
    /\ UNCHANGED <<cfgVars, keyVars, findVars, target0, cache, cache0, spc,
                   srcs, done, scn, cdir, reg, zinfo, stepVars>>

\* linkdir, line 194: return tgtdirs
LinkReturn ==
    /\ lk.pc = "loop"
    /\ lk.todo = <<>>
    /\ lk' = [lk EXCEPT !.pc = "returned"]
    /\ UNCHANGED <<cfgVars, keyVars, findVars, syncVars, scn, cdir, reg, zinfo, stepVars>>

NextLink == LinkCall \/ LinkStep \/ LinkReturn

SpecLink == InitLink /\ [][NextLink]_vars

\* C12: where the host does not report safe recursive removal, a folder under
\* the target that was a real directory when linkdir was called is never
\* changed or removed, linkdir raises RuntimeError when its loop comes to it
\* and never returns having linked it; a real directory is replaced by a link
\* only where safe removal is reported.
C12_RealDirKeptUnlessSafe ==
    \A n \in AddonNames :
        IsRealDir(target0.entries[n]) =>
            /\ ~lk.safe =>
                  /\ target.entries[n] = target0.entries[n]
                  /\ n \notin Range(lk.linked)
                  /\ (lk.pc = "loop" /\ lk.todo # <<>> /\ Head(lk.todo) = n)
                        => ENABLED LinkStep
                  /\ (lk.pc = "returned" => n \notin Range(lk.srcdirs))
                  /\ (lk.pc = "raised" /\ Head(lk.todo) = n)
                        => lk.exc = "RuntimeError"
            /\ target.entries[n] # target0.entries[n] => lk.safe

\* C12 witness: linkdir has raised RuntimeError at the real directory X after
\* linking Y, and X is as it was
C12_Witness ==
    /\ lk.pc = "raised"
    /\ lk.exc = "RuntimeError"
    /\ ~lk.safe
    /\ lk.srcdirs = <<"Y", "X">>
    /\ target0.entries["X"] = "merged"
    /\ target.entries["X"] = "merged"
    /\ target.entries["Y"] = "linked"

\* C24 (as claimed): whatever stands at the place of a target folder when
\* linkdir is called -- nothing, a symbolic link to a directory, a symbolic
\* link to nothing, or a real directory where safe removal is reported --
\* linkdir does not raise at that folder, and when it has returned the folder
\* is a symbolic link to the source folder.
C24_EndsAsLink ==
    \A n \in Range(lk.srcdirs) :
        (\/ target0.entries[n] \in {"none", "link", "linked", "dangling"}
         \/ IsRealDir(target0.entries[n]) /\ lk.safe)
        => /\ lk.pc = "returned" => target.entries[n] = "linked"
           /\ lk.pc = "raised" => Head(lk.todo) # n

-----------------------------------------------------------------------------
(* scan.scan(scandir, output_file) *)

\* the providers of the registry, in registration order, each with the toc
\* names it would answer for
ProviderNames == <<"github", "curseforge">>
ProviderLists ==
    {[k \in 1..Len(ProviderNames) |-> [name |-> ProviderNames[k], supplies |-> f[k]]] :
        f \in [1..Len(ProviderNames) -> SUBSET {"X", "Y"}]}

\* config.get("github_providers"): the default content has no such key
\* (KeyError); a list makes scan call GithubProvider.create, a name that
\* provider.py does not define
GithubProvidersEntries == {"absent", "null", "list"}
GetGithubProviders(entry) ==
    CASE entry = "absent" -> "KeyError"
      [] entry = "list" -> "ImportError"
      [] OTHER -> None

\* AddonProvider.providers(): providers is an OrderedDict, calling it raises
CallProviders(providers) == [exc |-> "TypeError", value |-> <<>>]

RECURSIVE SelectNames(_, _)
SelectNames(names, S) ==
    IF names = <<>> THEN <<>>
    ELSE (IF Head(names) \in S THEN <<Head(names)>> ELSE <<>>)
             \o SelectNames(Tail(names), S)

\* scan(), lines 62-76: per provider the names it has, then the names that no
\* provider has
MergeProviders(providers, names) ==
    LET collected == {a \in Range(names) :
                         \E k \in 1..Len(providers) : a \in providers[k].supplies}
    IN [listed |-> [k \in 1..Len(providers) |->
                       SelectNames(names, providers[k].supplies)],
        skipped |-> SelectNames(names, Range(names) \ collected)]

NoOutput == [listed |-> <<>>, skipped |-> <<>>]

ScanFrames ==
    {[pc |-> "start", output_file |-> FALSE, github_providers |-> "absent",
      providers |-> <<>>, addons |-> <<>>, exc |-> None, output |-> NoOutput]}
    \cup {[pc |-> "start", output_file |-> TRUE, github_providers |-> g,
           providers |-> ps, addons |-> <<>>, exc |-> None, output |-> NoOutput] :
             g \in GithubProvidersEntries, ps \in ProviderLists}

InitScan ==
    /\ StepsIdle
    /\ blacklist = [none |-> FALSE, words |-> {}]
    /\ max_try = DefaultMaxTry
    /\ avoids_symlink_attacks = TRUE
    /\ KeysIdle
    /\ FindIdle
    /\ LinkIdle /\ CacheDirIdle /\ RegistryIdle /\ MemoIdle
    /\ target \in {t \in TargetStates : t.exists}
    /\ target0 = target
    /\ cache = {} /\ cache0 = {}
    /\ spc = "idle"
    /\ srcs = <<>>
    /\ done = <<>>
    /\ scn \in ScanFrames

\* scan(), lines 23-54: find and resolve the .toc files, log the summary,
\* return None when no output file is asked for
ScanRead ==
    /\ scn.pc = "start"
    /\ LET addons == ScanAddons(target)
           exc == ScanSummary(addons)
       IN scn' = [scn EXCEPT !.addons = addons,
                             !.exc = exc,
                             !.pc = IF exc # None THEN "raised"
                                    ELSE IF scn.output_file THEN "collect"
                                    ELSE "returned"]
    /\ UNCHANGED <<cfgVars, keyVars, findVars, syncVars, lk, cdir, reg, zinfo, stepVars>>

\* scan(), lines 55-94: the providers and the result written to the file
ScanOutput ==
    /\ scn.pc = "collect"
    /\ LET e1 == GetGithubProviders(scn.github_providers)
           ps == CallProviders(scn.providers)
           names == [k \in 1..Len(scn.addons) |-> scn.addons[k].toc_name]
       IN scn' = IF e1 # None
                 THEN [scn EXCEPT !.pc = "raised", !.exc = e1]
                 ELSE IF ps.exc # None
                 THEN [scn EXCEPT !.pc = "raised", !.exc = ps.exc]
                 ELSE [scn EXCEPT !.pc = "returned",
                                  !.output = MergeProviders(ps.value, names)]
    /\ UNCHANGED <<cfgVars, keyVars, findVars, syncVars, lk, cdir, reg, zinfo, stepVars>>

NextScan == ScanRead \/ ScanOutput

SpecScan == InitScan /\ [][NextScan]_vars

\* the providers under which the result lists the name
ListedUnder(a) ==
    {k \in 1..Len(scn.output.listed) : a \in Range(scn.output.listed[k])}

\* the providers that have the name
SuppliedBy(a) ==
    {k \in 1..Len(scn.providers) : a \in scn.providers[k].supplies}

\* C14 (as claimed): a scan that found components and is asked for an output
\* file ends with a result in which every component name is listed under the
\* earliest registered provider that has it and under no other, or, when no
\* provider has it, in the skipped list and under no provider.
C14_OneProviderOrSkipped ==
    (scn.pc \in {"returned", "raised"} /\ scn.output_file
        /\ ScanSummary(ScanAddons(target)) = None)
    => /\ scn.pc = "returned"
       /\ \A k \in 1..Len(scn.addons) :
            LET a == scn.addons[k].toc_name
            IN /\ Cardinality(ListedUnder(a)) <= 1
               /\ a \in Range(scn.output.skipped) <=> SuppliedBy(a) = {}
               /\ a \in Range(scn.output.skipped) <=> ListedUnder(a) = {}
               /\ \A p \in ListedUnder(a) :
                     p \in SuppliedBy(a) /\ \A q \in SuppliedBy(a) : p <= q

\* C17 (as claimed): when scan() has read a directory with a .toc file whose
\* base name is not the name of its folder, next to others, that entry is
\* flagged invalid and scan() has not raised: every entry was read, the valid
\* ones with their tags.
C17_InvalidEntryFlagged ==
    LET found == ScanAddons(target)
    IN (scn.pc # "start" /\ ~scn.output_file
           /\ \E k \in 1..Len(found) : found[k].toc_name # found[k].toc_dir)
       => /\ scn.pc = "returned"
          /\ scn.addons = found
          /\ \A k \in 1..Len(found) :
                found[k].state = "invalid" <=> found[k].toc_name # found[k].toc_dir

-----------------------------------------------------------------------------
(* AddonSource.zipinfo, CurseProject.dlinfo and CurseProject.addons *)

MaxAccesses == 3

\* the download page of the project: with the link to the file, or an error
\* status / a page without the link
DownloadPages == {"ok", "bad"}

\* the dict zipinfo returns
ZipInfo(resp) == [content |-> resp.names, tocs |-> Tocs(resp.names)]
NoZipInfo == [content |-> <<>>, tocs |-> <<>>]

\* functools.lru_cache around a property: the value of a call that returned
\* is kept for the instance, a call that raised leaves no entry
Memoize(entry, exc, value) ==
    IF exc = None THEN [has |-> TRUE, value |-> value] ELSE entry

\* CurseProject.dlinfo (through zipurl): one request of the download page
\* unless a value is kept
DlInfo(z) ==
    IF z.dlinfo.has THEN [exc |-> None, fetched |-> 0]
    ELSE [exc |-> IF z.page = "ok" THEN None ELSE "RuntimeError", fetched |-> 1]

\* AddonSource.zipinfo: zipurl first, then one request of the file unless a
\* value is kept
ZipRequest(z) ==
    CASE z.file.kind = "ok" -> [exc |-> None, value |-> ZipInfo(z.file)]
      [] z.file.kind = "http" -> [exc |-> "RuntimeError", value |-> NoZipInfo]
      [] OTHER -> [exc |-> "ConnectionError", value |-> NoZipInfo]

GetZipInfo(z) ==
    LET dl == DlInfo(z)
        z1 == [z EXCEPT !.dlinfo = Memoize(z.dlinfo, dl.exc, NoZipInfo),
                        !.pagefetches = z.pagefetches + dl.fetched]
        rq == ZipRequest(z)
    IN IF z.zipinfo.has
       THEN [exc |-> None, value |-> z.zipinfo.value, z |-> z]
       ELSE IF dl.exc # None
       THEN [exc |-> dl.exc, value |-> NoZipInfo, z |-> z1]
       ELSE [exc |-> rq.exc, value |-> rq.value,
             z |-> [z1 EXCEPT !.zipinfo = Memoize(z.zipinfo, rq.exc, rq.value),
                              !.fetches = z.fetches + 1]]

\* CurseProject.addons: the folders of the .toc files, nothing when zipinfo
\* raises RuntimeError
AddonsOf(exc, value) ==
    IF exc = None
    THEN [exc |-> None,
          value |-> [k \in 1..Len(value.tocs) |-> PathHead(value.tocs[k])]]
    ELSE IF exc = "RuntimeError" THEN [exc |-> None, value |-> <<>>]
    ELSE [exc |-> exc, value |-> <<>>]

NoEntry == [has |-> FALSE, value |-> NoZipInfo]

InitMemo ==
    /\ StepsIdle
    /\ blacklist = [none |-> FALSE, words |-> {}]
    /\ max_try = DefaultMaxTry
    /\ avoids_symlink_attacks = TRUE
    /\ KeysIdle
    /\ FindIdle
    /\ SyncIdle
    /\ LinkIdle /\ ScanIdle /\ CacheDirIdle /\ RegistryIdle
    /\ zinfo \in {[pc |-> "run", page |-> p, file |-> f, dlinfo |-> NoEntry,
                   zipinfo |-> NoEntry, pagefetches |-> 0, fetches |-> 0,
                   first |-> [has |-> FALSE, exc |-> None, value |-> NoZipInfo],
                   returned |-> <<>>] :
                     p \in DownloadPages, f \in FetchResponses(IdB)}

\* the remote site changes between two accesses
RemoteChange ==
    /\ zinfo.pc = "run"
    /\ \E p \in DownloadPages, f \in FetchResponses(IdB) :
         /\ <<p, f>> # <<zinfo.page, zinfo.file>>
         /\ zinfo' = [zinfo EXCEPT !.page = p, !.file = f]
    /\ UNCHANGED <<cfgVars, keyVars, findVars, syncVars, lk, scn, cdir, reg, stepVars>>

\* what an access leaves behind: the memo, the outcome of the first
\* evaluation and the result handed to the caller
Accessed(got, op, result) ==
    [got.z EXCEPT !.first = IF zinfo.first.has THEN zinfo.first
                            ELSE [has |-> TRUE, exc |-> got.exc,
                                  value |-> got.value],
                  !.returned = Append(zinfo.returned,
                                      [op |-> op, exc |-> result.exc,
                                       value |-> result.value])]

\* source.zipinfo
AccessZipinfo ==
    /\ zinfo.pc = "run"
    /\ Len(zinfo.returned) < MaxAccesses
    /\ LET got == GetZipInfo(zinfo)
       IN zinfo' = Accessed(got, "zipinfo",
                            [exc |-> got.exc, value |-> got.value.tocs])
    /\ UNCHANGED <<cfgVars, keyVars, findVars, syncVars, lk, scn, cdir, reg, stepVars>>

\* source.addons
AccessAddons ==
    /\ zinfo.pc = "run"
    /\ Len(zinfo.returned) < MaxAccesses
    /\ LET got == GetZipInfo(zinfo)
       IN zinfo' = Accessed(got, "addons", AddonsOf(got.exc, got.value))
    /\ UNCHANGED <<cfgVars, keyVars, findVars, syncVars, lk, scn, cdir, reg, stepVars>>

NextMemo == RemoteChange \/ AccessZipinfo \/ AccessAddons

SpecMemo == InitMemo /\ [][NextMemo]_vars

\* what an access has to return when it returns the value of the first fetch
FromFirst(op) ==
    IF op = "addons" THEN AddonsOf(zinfo.first.exc, zinfo.first.value)
    ELSE [exc |-> zinfo.first.exc, value |-> zinfo.first.value.tocs]

\* C15 (as claimed): over any sequence of accesses to one Source's zipinfo and
\* addons, with the remote data changing in between, the file is requested at
\* most once, the download page at most once, and every access returns what
\* the first request gave, also when the first request failed.
C15_FetchedAtMostOnce ==
    zinfo.pc = "run"
    => /\ zinfo.fetches <= 1
       /\ zinfo.pagefetches <= 1
       /\ \A k \in 1..Len(zinfo.returned) :
            LET r == zinfo.returned[k]
            IN [exc |-> r.exc, value |-> r.value] = FromFirst(r.op)

-----------------------------------------------------------------------------
(* AddonProvider.__init_subclass__ and the registry AddonProvider.providers *)

MaxClasses == 4

\* the names the provider classes of provider.py carry
ClassNames == {"github", "curseforge", "local"}

\* the place of name among the keys of the registry, 0 when it is no key
KeyIndex(providers, name) ==
    IF \E k \in 1..Len(providers) : providers[k].name = name
    THEN CHOOSE k \in 1..Len(providers) : providers[k].name = name
    ELSE 0

\* a variant that keeps the provider a name already has
SetItem_FirstWins(providers, name, cls) ==
    IF KeyIndex(providers, name) # 0 THEN providers
    ELSE Append(providers, [name |-> name, cls |-> cls])

\* cls.providers[cls.name] = cls(): a known key keeps its place and gets the
\* new instance, a new key goes to the end
SetItem(providers, name, cls) ==
    IF KeyIndex(providers, name) # 0
    THEN [providers EXCEPT ![KeyIndex(providers, name)].cls = cls]
    ELSE Append(providers, [name |-> name, cls |-> cls])

InitRegistry ==
    /\ StepsIdle
    /\ blacklist = [none |-> FALSE, words |-> {}]
    /\ max_try = DefaultMaxTry
    /\ avoids_symlink_attacks = TRUE
    /\ KeysIdle
    /\ FindIdle
    /\ SyncIdle
    /\ LinkIdle /\ ScanIdle /\ CacheDirIdle /\ MemoIdle
    /\ reg = [pc |-> "run", providers |-> <<>>, classes |-> <<>>, warnings |-> 0]

\* a class statement deriving from AddonProvider: the classes are numbered in
\* the order of their definition
InitSubclass ==
    /\ reg.pc = "run"
    /\ Len(reg.classes) < MaxClasses
    /\ \E name \in ClassNames, abstract \in BOOLEAN :
         LET cls == Len(reg.classes) + 1
             classes == Append(reg.classes,
                               [name |-> name, abstract |-> abstract])
         IN reg' = IF abstract
                   THEN [reg EXCEPT !.classes = classes]
                   ELSE [reg EXCEPT
                           !.classes = classes,
                           !.warnings = IF KeyIndex(reg.providers, name) # 0
                                        THEN reg.warnings + 1
                                        ELSE reg.warnings,
                           !.providers = SetItem(reg.providers, name, cls)]
    /\ UNCHANGED <<cfgVars, keyVars, findVars, syncVars, lk, scn, cdir, zinfo, stepVars>>

NextRegistry == InitSubclass

SpecRegistry == InitRegistry /\ [][NextRegistry]_vars

\* the concrete classes defined so far that carry the name
Registrations(name) ==
    {c \in 1..Len(reg.classes) :
        reg.classes[c].name = name /\ ~reg.classes[c].abstract}

\* C16: after any sequence of class definitions the registry has at most one
\* entry per name, and the entry of a name is the instance of the concrete
\* class defined last under that name.
C16_LaterRegistrationWins ==
    reg.pc = "run"
    => /\ \A i, j \in 1..Len(reg.providers) :
            reg.providers[i].name = reg.providers[j].name => i = j
       /\ \A name \in ClassNames :
            /\ Registrations(name) = {} <=> KeyIndex(reg.providers, name) = 0
            /\ Registrations(name) # {} =>
                 \A c \in Registrations(name) :
                    c <= reg.providers[KeyIndex(reg.providers, name)].cls

\* a name was registered twice, with another name registered in between
C16_Witness ==
    /\ reg.pc = "run"
    /\ \E name \in ClassNames :
         /\ Cardinality(Registrations(name)) >= 2
         /\ reg.warnings >= 1
         /\ Len(reg.providers) >= 2

-----------------------------------------------------------------------------
(* Config.cachedir, Config.save_to_cachedir and Config.get_from_cachedir *)

\* what stands at the path cache.dir: nothing, a directory, a file, or a
\* symbolic link to nothing
CachePathKinds == {"absent", "dir", "file", "dangling"}

\* file names as path parts, and file contents
FileNames == {<<"f.zip">>, <<"g.zip">>, <<"d", "f.zip">>}
FileContents == {"old", "new"}
Patterns == {"*", "f.zip", "g.zip"}

\* os.path.basename(filename) != filename
HasDirPart(filename) == Len(filename) > 1

\* utils.mkdirs(d): os.makedirs, where "the path is there" is no error
MkDirs(kind) == IF kind = "absent" THEN "dir" ELSE kind

\* Config.cachedir: the path when it is a directory, RuntimeError when it is
\* something else, and a new directory when os.path.exists says no
CacheDir(kind) ==
    IF kind \in {"dir", "file"}
    THEN IF kind = "dir" THEN [exc |-> None, kind |-> kind]
         ELSE [exc |-> "RuntimeError", kind |-> kind]
    ELSE [exc |-> None, kind |-> MkDirs(kind)]

\* Config.save_to_cachedir(filename, content)
SaveToCachedir(kind, files, filename, content) ==
    LET cd == CacheDir(kind)
    IN IF cd.exc # None
       THEN [exc |-> cd.exc, kind |-> cd.kind, files |-> files, value |-> {}]
       ELSE IF HasDirPart(filename)
       THEN [exc |-> "ValueError", kind |-> cd.kind, files |-> files,
             value |-> {}]
       ELSE IF cd.kind # "dir"
       THEN [exc |-> "FileNotFoundError", kind |-> cd.kind, files |-> files,
             value |-> {}]
       ELSE [exc |-> None, kind |-> cd.kind,
             files |-> {f \in files : f.name # filename}
                          \cup {[name |-> filename, content |-> content]},
             value |-> {filename}]

\* glob.glob(os.path.join(cachedir, pattern))
GlobCache(kind, files, pattern) ==
    IF kind # "dir" THEN {}
    ELSE {f.name : f \in {g \in files : pattern = "*" \/ g.name = <<pattern>>}}

\* Config.get_from_cachedir(pattern)
GetFromCachedir(kind, files, pattern) ==
    LET cd == CacheDir(kind)
    IN IF cd.exc # None
       THEN [exc |-> cd.exc, kind |-> cd.kind, files |-> files, value |-> {}]
       ELSE [exc |-> None, kind |-> cd.kind, files |-> files,
             value |-> GlobCache(cd.kind, files, pattern)]

NoCall == [op |-> "none", filename |-> <<>>, exc |-> None, value |-> {}]

InitCacheDir ==
    /\ StepsIdle
    /\ blacklist = [none |-> FALSE, words |-> {}]
    /\ max_try = DefaultMaxTry
    /\ avoids_symlink_attacks = TRUE
    /\ KeysIdle
    /\ FindIdle
    /\ SyncIdle
    /\ LinkIdle /\ ScanIdle /\ RegistryIdle /\ MemoIdle
    /\ \E k \in CachePathKinds,
          fs \in SUBSET {[name |-> <<"f.zip">>, content |-> "old"],
                         [name |-> <<"g.zip">>, content |-> "old"]} :
         /\ k # "dir" => fs = {}
         /\ cdir = [pc |-> "run", kind |-> k, files |-> fs,
                    before |-> [kind |-> k, files |-> fs], written |-> FALSE,
                    last |-> NoCall]

\* config.save_to_cachedir(filename, content)
Save ==
    /\ cdir.pc = "run"
    /\ \E filename \in FileNames, content \in FileContents :
         LET r == SaveToCachedir(cdir.kind, cdir.files, filename, content)
         IN cdir' = [cdir EXCEPT
                       !.kind = r.kind,
                       !.files = r.files,
                       !.before = [kind |-> cdir.kind, files |-> cdir.files],
                       !.written = cdir.written \/ r.exc = None,
                       !.last = [op |-> "save", filename |-> filename,
                                 exc |-> r.exc, value |-> r.value]]
    /\ UNCHANGED <<cfgVars, keyVars, findVars, syncVars, lk, scn, reg, zinfo, stepVars>>

\* config.get_from_cachedir(pattern)
Get ==
    /\ cdir.pc = "run"
    /\ \E pattern \in Patterns :
         LET r == GetFromCachedir(cdir.kind, cdir.files, pattern)
         IN cdir' = [cdir EXCEPT
                       !.kind = r.kind,
                       !.files = r.files,
                       !.before = [kind |-> cdir.kind, files |-> cdir.files],
                       !.last = [op |-> "get", filename |-> <<pattern>>,
                                 exc |-> r.exc, value |-> r.value]]
    /\ UNCHANGED <<cfgVars, keyVars, findVars, syncVars, lk, scn, reg, zinfo, stepVars>>

NextCacheDir == Save \/ Get

SpecCacheDir == InitCacheDir /\ [][NextCacheDir]_vars

\* C18 (as claimed): a save_to_cachedir call with a file name that has a
\* directory part raises (ValueError, unless the cache path itself is
\* unusable) and leaves the path of the cache directory and the files in it
\* as they were before the call.
C18_NonBasenameRejected ==
    (cdir.pc = "run" /\ cdir.last.op = "save" /\ HasDirPart(cdir.last.filename))
    => /\ cdir.last.exc # None
       /\ cdir.before.kind \in {"absent", "dir"} => cdir.last.exc = "ValueError"
       /\ cdir.kind = cdir.before.kind
       /\ cdir.files = cdir.before.files

\* C19 (as claimed): a lookup never creates the cache directory, a directory
\* that came into being was made by a store, and with the cache path being
\* a file every store and every lookup raises and leaves the path and the
\* files as they were.
C19_CacheDirLazy ==
    (cdir.pc = "run" /\ cdir.last.op # "none")
    => /\ cdir.last.op = "get" => cdir.kind = cdir.before.kind
       /\ (cdir.kind = "dir" /\ cdir.before.kind # "dir") => cdir.last.op = "save"
       /\ cdir.before.kind = "file"
            => /\ cdir.last.exc # None
               /\ cdir.kind = cdir.before.kind
               /\ cdir.files = cdir.before.files

-----------------------------------------------------------------------------
(* utils.unzipdir(source, target, pattern), file by file *)

\* the files a folder may hold; every folder of the archive holds ArchiveFiles
UzFileNames == {"a", "b", "c"}
ArchiveFiles == {"a", "b"}

NoFiles == [f \in UzFileNames |-> "none"]

\* what stands at the place of a target folder: nothing, a directory, a
\* symbolic link to a directory (files: what is behind the link), a symbolic
\* link to nothing, or a plain file
UzFolders ==
    {[kind |-> k, files |-> NoFiles] : k \in {"none", "dangling", "file"}}
    \cup {[kind |-> k, files |-> fs] :
            k \in {"dir", "link"}, fs \in [UzFileNames -> {"none", "old"}]}

\* os.path.isdir (follows the link) and os.path.islink
IsDirPath(folder) == folder.kind \in {"dir", "link"}
IsLinkPath(folder) == folder.kind \in {"link", "dangling"}

\* a variant without the symlink check
AnyLink_Never(tgt, names) == FALSE

\* any(os.path.islink(t) for t in tgtdirs)
AnyLink(tgt, names) == \E i \in 1..Len(names) : IsLinkPath(tgt[names[i]])

\* the purge option of the second dirsync call, and a variant with it on
PurgeOption_On == TRUE

PurgeOption == FALSE

\* dirsync's comparison of the archive folder with the target folder; the
\* extracted files carry the time of the extraction, so a target file that
\* was not written by this call is the older one
LeftOnly(folder) == {f \in ArchiveFiles : folder.files[f] = "none"}
Stale(folder) == {f \in ArchiveFiles : folder.files[f] = "old"}
RightOnly(folder) == {f \in UzFileNames \ ArchiveFiles : folder.files[f] # "none"}

InitUnzip ==
    /\ blacklist = [none |-> FALSE, words |-> {}]
    /\ max_try = DefaultMaxTry
    /\ avoids_symlink_attacks = TRUE
    /\ KeysIdle
    /\ FindIdle
    /\ SyncIdle
    /\ LinkIdle /\ ScanIdle /\ CacheDirIdle /\ RegistryIdle /\ MemoIdle
    /\ race = Idle /\ git = Idle
    /\ \E l \in SrcDirLists, t \in [AddonNames -> UzFolders] :
         uz = [pc |-> "start", srcdirs |-> l, todo |-> <<>>, pass |-> "update",
               tgt |-> t, tgt0 |-> t, synced |-> <<>>, exc |-> None]

\* unzipdir, lines 133-146: extract, find the folders, refuse symlinks
UnzipCall ==
    /\ uz.pc = "start"
    /\ uz' = IF AnyLink(uz.tgt, uz.srcdirs)
             THEN [uz EXCEPT !.pc = "raised", !.exc = "RuntimeError"]
             ELSE [uz EXCEPT !.pc = "loop", !.todo = uz.srcdirs]
    /\ UNCHANGED <<cfgVars, keyVars, findVars, syncVars,
                   lk, scn, cdir, reg, zinfo, race, git>>

\* unzipdir, lines 150-154: one step of dirsync "update" with create=True on
\* the folder at hand: make the target folder, or update one file that both
\* sides have, or end the pass
DirsyncUpdate ==
    /\ uz.pc = "loop" /\ uz.todo # <<>> /\ uz.pass = "update"
    /\ LET n == Head(uz.todo)
           folder == uz.tgt[n]
       IN IF ~IsDirPath(folder)
          THEN uz' = IF folder.kind = "none"
                     THEN [uz EXCEPT !.tgt[n].kind = "dir"]
                     ELSE [uz EXCEPT !.pc = "raised", !.exc = "OSError"]
          ELSE IF Stale(folder) # {}
          THEN \E f \in Stale(folder) : uz' = [uz EXCEPT !.tgt[n].files[f] = "new"]
          ELSE uz' = [uz EXCEPT !.pass = "sync"]
    /\ UNCHANGED <<cfgVars, keyVars, findVars, syncVars,
                   lk, scn, cdir, reg, zinfo, race, git>>

\* unzipdir, lines 155-160: one step of dirsync "sync" on the folder at hand:
\* with purge, remove a file only the target has; copy one file only the
\* archive has; update one file; or end the pass and take the next folder
DirsyncSync ==
    /\ uz.pc = "loop" /\ uz.todo # <<>> /\ uz.pass = "sync"
    /\ LET n == Head(uz.todo)
           folder == uz.tgt[n]
       IN IF PurgeOption /\ RightOnly(folder) # {}
          THEN \E f \in RightOnly(folder) :
                   uz' = [uz EXCEPT !.tgt[n].files[f] = "none"]
          ELSE IF LeftOnly(folder) \cup Stale(folder) # {}
          THEN \E f \in LeftOnly(folder) \cup Stale(folder) :
                   uz' = [uz EXCEPT !.tgt[n].files[f] = "new"]
          ELSE uz' = [uz EXCEPT !.pass = "update", !.todo = Tail(@),
                                !.synced = Append(@, n)]
    /\ UNCHANGED <<cfgVars, keyVars, findVars, syncVars,
                   lk, scn, cdir, reg, zinfo, race, git>>

\* unzipdir, line 161: return tgtdirs
UnzipReturn ==
    /\ uz.pc = "loop" /\ uz.todo = <<>>
    /\ uz' = [uz EXCEPT !.pc = "returned"]
    /\ UNCHANGED <<cfgVars, keyVars, findVars, syncVars,
                   lk, scn, cdir, reg, zinfo, race, git>>

NextUnzip == UnzipCall \/ DirsyncUpdate \/ DirsyncSync \/ UnzipReturn

SpecUnzip == InitUnzip /\ [][NextUnzip]_vars

HoldsFiles(folder) ==
    IsDirPath(folder) /\ \E f \in UzFileNames : folder.files[f] # "none"

\* C21: at every point of unzipdir, so wherever it is interrupted, a target
\* folder that held files when unzipdir was called holds files; and the second
\* dirsync pass on a folder starts only when the first has nothing left to
\* update.
C21_NeverEmpty ==
    /\ \A n \in AddonNames : HoldsFiles(uz.tgt0[n]) => HoldsFiles(uz.tgt[n])
    /\ (uz.pc = "loop" /\ uz.todo # <<>> /\ uz.pass = "sync")
          => Stale(uz.tgt[Head(uz.todo)]) = {}

\* C21 witness: unzipdir stands in the second pass on X, which held only a
\* file the archive does not have; X now holds that file and a new one, and
\* one more is to be copied
C21_Witness ==
    /\ uz.pc = "loop" /\ uz.todo # <<>> /\ Head(uz.todo) = "X"
    /\ uz.pass = "sync"
    /\ uz.tgt0["X"].kind = "dir"
    /\ uz.tgt0["X"].files = [NoFiles EXCEPT !["c"] = "old"]
    /\ uz.tgt["X"].files["c"] = "old"
    /\ Cardinality(LeftOnly(uz.tgt["X"])) = 1

\* C22 (as claimed): when unzipdir has returned, every target folder it
\* synced is a directory that holds every file of the archive folder and no
\* file that the archive folder does not have.
C22_SourceContentOnly ==
    uz.pc = "returned"
    => \A n \in Range(uz.srcdirs) :
          /\ uz.tgt[n].kind = "dir"
          /\ \A f \in ArchiveFiles : uz.tgt[n].files[f] = "new"
          /\ \A f \in UzFileNames \ ArchiveFiles : uz.tgt[n].files[f] = "none"

\* C23: when one of the target folders of the call is a symbolic link,
\* unzipdir raises RuntimeError and every target folder, and what is behind
\* the link, is as it was before the call.
C23_SymlinkRefused ==
    (uz.pc # "start" /\ \E n \in Range(uz.srcdirs) : IsLinkPath(uz.tgt0[n]))
    => /\ uz.pc = "raised" /\ uz.exc = "RuntimeError"
       /\ uz.tgt = uz.tgt0

\* C23 witness: unzipdir has raised on an archive with X and Y, where Y is a
\* link to a directory with an old file and X is absent
C23_Witness ==
    /\ uz.pc = "raised"
    /\ uz.srcdirs = <<"X", "Y">>
    /\ uz.tgt0["X"].kind = "none"
    /\ uz.tgt0["Y"].kind = "link" /\ uz.tgt0["Y"].files["a"] = "old"

-----------------------------------------------------------------------------
(* a method behind instance_method_lru_cache, called from pool threads:     *)
(* Curseforge._search_case_insensitive(key), AddonSource.zipinfo            *)

MaxThreads == 3
Threads == 1..MaxThreads

\* what the remote site may answer to the request; it may change in between
RemoteAnswers == {"v1", "v2", "RuntimeError"}

\* lru_cache after the call has returned: the result enters the cache unless
\* the call raised or another thread has stored one meanwhile
StoreResult(memo, answer) ==
    IF answer = "RuntimeError" \/ memo.has THEN memo
    ELSE [has |-> TRUE, value |-> answer]

InitRace ==
    /\ blacklist = [none |-> FALSE, words |-> {}]
    /\ max_try = DefaultMaxTry
    /\ avoids_symlink_attacks = TRUE
    /\ KeysIdle
    /\ FindIdle
    /\ SyncIdle
    /\ LinkIdle /\ ScanIdle /\ CacheDirIdle /\ RegistryIdle /\ MemoIdle
    /\ uz = Idle /\ git = Idle
    /\ race = [pc |-> "run", memo |-> [has |-> FALSE, value |-> None],
               th |-> [t \in Threads |->
                          [pc |-> "idle", requested |-> FALSE, got |-> None]]]

\* a thread calls the method: lru_cache looks the key up; a hit returns the
\* cached value, a miss runs the method, which sends the request
CallCached(t) ==
    /\ race.pc = "run"
    /\ race.th[t].pc = "idle"
    /\ race' = IF race.memo.has
               THEN [race EXCEPT !.th[t].pc = "done",
                                 !.th[t].got = race.memo.value]
               ELSE [race EXCEPT !.th[t].pc = "fetching",
                                 !.th[t].requested = TRUE]
    /\ UNCHANGED <<cfgVars, keyVars, findVars, syncVars,
                   lk, scn, cdir, reg, zinfo, uz, git>>

\* the request of a thread is answered: the method returns or raises, and
\* lru_cache stores what it returned
RequestAnswered(t) ==
    /\ race.pc = "run"
    /\ race.th[t].pc = "fetching"
    /\ \E answer \in RemoteAnswers :
         race' = [race EXCEPT !.th[t].pc = "done",
                              !.th[t].got = answer,
                              !.memo = StoreResult(race.memo, answer)]
    /\ UNCHANGED <<cfgVars, keyVars, findVars, syncVars,
                   lk, scn, cdir, reg, zinfo, uz, git>>

NextRace ==
    \/ \E t \in Threads : CallCached(t)
    \/ \E t \in Threads : RequestAnswered(t)

SpecRace == InitRace /\ [][NextRace]_vars

\* C26 (as claimed): whatever the interleaving of the threads that call the
\* memoised method with one key, at most one of them sends a request, and
\* all that have returned a value have returned the same one.
C26_FetchedOncePerRun ==
    race.pc = "run"
    => /\ Cardinality({t \in Threads : race.th[t].requested}) <= 1
       /\ \A t, u \in Threads :
            (race.th[t].pc = "done" /\ race.th[u].pc = "done"
                /\ race.th[t].got # "RuntimeError"
                /\ race.th[u].got # "RuntimeError")
            => race.th[t].got = race.th[u].got

-----------------------------------------------------------------------------
(* GithubRepo.sync with git at hand, for Sources of one run whose clone     *)
(* directory <cachedir>/<repo_name> is the same                             *)

\* the clone directory: not there, being filled by a running clone, a
\* repository, or something that is no repository
CloneDirStates == {"absent", "cloning", "repo", "broken"}

\* os.path.exists(clonedir), then os.listdir and the glob for .git: what the
\* Source decides to do.  A directory that a running clone is filling may or
\* may not show its .git yet
GitDecisions(dir) ==
    CASE dir = "absent" -> {"clone"}
      [] dir = "repo" -> {"pull"}
      [] dir = "cloning" -> {"pull", "RuntimeError"}
      [] OTHER -> {"RuntimeError"}

InitGit ==
    /\ blacklist = [none |-> FALSE, words |-> {}]
    /\ max_try = DefaultMaxTry
    /\ avoids_symlink_attacks = TRUE
    /\ KeysIdle
    /\ FindIdle
    /\ SyncIdle
    /\ LinkIdle /\ ScanIdle /\ CacheDirIdle /\ RegistryIdle /\ MemoIdle
    /\ uz = Idle /\ race = Idle
    /\ \E d \in CloneDirStates \ {"cloning"} :
         git = [pc |-> "run", dir |-> d,
                th |-> [t \in Threads |->
                           [pc |-> "idle", owner |-> FALSE, exc |-> None]]]

\* GithubRepo.sync, lines 396-409: look at the clone directory
GitCheck(t) ==
    /\ git.pc = "run"
    /\ git.th[t].pc = "idle"
    /\ \E d \in GitDecisions(git.dir) :
         git' = IF d = "RuntimeError"
                THEN [git EXCEPT !.th[t].pc = "done", !.th[t].exc = d]
                ELSE [git EXCEPT !.th[t].pc = d]
    /\ UNCHANGED <<cfgVars, keyVars, findVars, syncVars,
                   lk, scn, cdir, reg, zinfo, uz, race>>

\* run_and_log starts git pull or git clone; a clone makes the directory
\* when it is not there
GitStart(t) ==
    /\ git.pc = "run"
    /\ git.th[t].pc \in {"clone", "pull"}
    /\ git' = IF git.th[t].pc = "pull"
              THEN [git EXCEPT !.th[t].pc = "pulling"]
              ELSE IF git.dir = "absent"
              THEN [git EXCEPT !.th[t].pc = "cloning", !.th[t].owner = TRUE,
                               !.dir = "cloning"]
              ELSE [git EXCEPT !.th[t].pc = "cloning"]
    /\ UNCHANGED <<cfgVars, keyVars, findVars, syncVars,
                   lk, scn, cdir, reg, zinfo, uz, race>>

\* the git command ends; a return code other than 0 raises RuntimeError
\* (lines 419-421).  A clone into a directory another clone has made fails
GitEnd(t) ==
    /\ git.pc = "run"
    /\ git.th[t].pc \in {"cloning", "pulling"}
    /\ \E retcode \in {0, 1} :
         git' = IF git.th[t].pc = "cloning" /\ git.th[t].owner
                THEN IF retcode = 0
                     THEN [git EXCEPT !.th[t].pc = "done", !.dir = "repo"]
                     ELSE [git EXCEPT !.th[t].pc = "done", !.dir = "broken",
                                      !.th[t].exc = "RuntimeError"]
                ELSE IF git.th[t].pc = "pulling" /\ retcode = 0
                THEN [git EXCEPT !.th[t].pc = "done"]
                ELSE [git EXCEPT !.th[t].pc = "done",
                                 !.th[t].exc = "RuntimeError"]
    /\ UNCHANGED <<cfgVars, keyVars, findVars, syncVars,
                   lk, scn, cdir, reg, zinfo, uz, race>>

NextGit ==
    \/ \E t \in Threads : GitCheck(t)
    \/ \E t \in Threads : GitStart(t)
    \/ \E t \in Threads : GitEnd(t)

SpecGit == InitGit /\ [][NextGit]_vars

\* C28 (as claimed): of the Sources that share a clone directory, at most one
\* has a git clone or git pull running on it at any time.
C28_GitCommandsExclusive ==
    git.pc = "run"
    => Cardinality({t \in Threads : git.th[t].pc \in {"cloning", "pulling"}}) <= 1

=============================================================================
